---- MODULE Spec2Model ----
(***************************************************************************)
(* Model of the Lambda provisioning modules of lambda-api-example:         *)
(*   AwsIam            (src/src/index.ts, lines 106-243)                    *)
(*   AwsLambda         (src/unnamed/part_004)                               *)
(*   LambdaApiExample  (src/unnamed/part_001, lines 82-257)                 *)
(* The remote account (one role name, one function name) is the shared     *)
(* state; every remote call of the code is one atomic step, together with  *)
(* the local code that follows it up to the next remote call.              *)
(***************************************************************************)
EXTENDS Integers, Sequences, FiniteSets, TLC

\* ------------------------------------------------------------------ bounds
MaxRuns    == 2   \* operations (deploy, destroy, ...) started in one behaviour
MaxFaults  == 1   \* remote calls (or pipeline steps) that fail for an outside reason
MaxArtLen  == 1   \* artifact length in bytes, 0..MaxArtLen
PollCap    == 7   \* polls after which the identity service has propagated the role

\* ------------------------------------------------------- program constants
maxAttempts == 5

Procs == {1}

\* ------------------------------------------------------------------ values
\* Every value the code passes around is a pair <<text, n>>, so that an
\* undefined value, a name, an ARN and a URL can be compared with each other.
Undefined      == <<"undefined", 0>>
EmptyString    == <<"", 0>>
RoleArnOf(n)     == <<"arn:aws:iam:role/lambda-example-role", n>>
FunctionArnOf(n) == <<"arn:aws:lambda:function:lambda-example", n>>
FunctionUrlOf(n) == <<"https://lambda-url.on.aws/", n>>
RoleNameValue     == <<"lambda-example-role", 0>>
FunctionNameValue == <<"lambda-example", 0>>

\* JavaScript truthiness of a string | undefined value
Truthy(v) == v /= Undefined /\ v /= EmptyString

\* Object.values(Runtime) and Object.values(Architecture) of the SDK
RuntimeValues      == {"nodejs20.x", "nodejs18.x", "python3.12"}
ArchitectureValues == {"arm64", "x86_64"}
RuntimeInputs      == {"nodejs20.x", "not-a-real-runtime"}
ArchitectureInputs == {"arm64", "mips"}
AuthTypeInputs     == {"NONE", "AWS_IAM"}

StatementId == "public-url"

\* the Cors of a URL configuration; createFunctionUrl's defaults for it
DefaultCors == [allowOrigins |-> "*", allowHeaders |-> "*", allowMethods |-> "*",
                allowCredentials |-> FALSE]

NoCors == [allowOrigins |-> "", allowHeaders |-> "", allowMethods |-> "",
           allowCredentials |-> FALSE]

CorsInputs == {DefaultCors,
               [allowOrigins |-> "https://example.com", allowHeaders |-> "content-type",
                allowMethods |-> "GET", allowCredentials |-> TRUE]}

\* ------------------------------------------------------------ remote state
NoRole == [exists |-> FALSE, arn |-> Undefined, attached |-> FALSE, propagated |-> FALSE]
NoFn   == [exists |-> FALSE, arn |-> Undefined, role |-> Undefined, code |-> 0,
           handler |-> "", runtime |-> "", architecture |-> "",
           memorySize |-> 0, timeout |-> 0]
NoUrl  == [exists |-> FALSE, url |-> Undefined, authType |-> "", cors |-> NoCors]

VARIABLES
  role,     \* the IAM role named roleName
  fn,       \* the Lambda function named functionName
  url,      \* the function's URL configuration
  perms,    \* the statements of the function's resource policy
  nextId,   \* source of the identifiers the services assign
  proc,     \* per process: position and locals of the running operation
  prev,     \* per process: the operation it finished before the current one
  runs,     \* operations started so far
  faults,   \* outside failures injected so far
  inv,      \* per invocation of the deployed function's handler: event and response
  clock     \* the time new Date() reads

vars == <<role, fn, url, perms, nextId, proc, prev, runs, faults, inv, clock>>
remote == <<role, fn, url, perms, nextId>>
provisioning == <<remote, proc, prev, runs, faults>>
serving == <<inv, clock>>

\* ------------------------------------------- the handler's events and results
Str(s) == <<s, 0>>

\* the invocations of the handler that may be in flight together
Invocations == {1, 2}

\* the event {}: every property missing
NoEvent == [rawPath |-> Undefined, hasContext |-> FALSE, requestId |-> Undefined,
            hasHttp |-> FALSE, method |-> Undefined, sourceIp |-> Undefined,
            userAgent |-> Undefined]

NoResponse == [statusCode |-> 0, headers |-> <<>>, body |-> <<>>]

NoInvocation == [pc |-> "idle", started |-> 0, event |-> NoEvent, response |-> NoResponse]

\* ------------------------------------------------------------ local state
NoRet == [text |-> "", value |-> Undefined]

Snapshot == [role |-> role, fn |-> fn, url |-> url, perms |-> perms]

Idle == [pc |-> "idle", op |-> "none", art |-> 0, runtime |-> "", architecture |-> "",
         authType |-> "", cors |-> NoCors, roleArn |-> Undefined, createdArn |-> Undefined,
         attempts |-> 0, polls |-> 0, functionUrl |-> EmptyString,
         createUrl |-> Undefined, functionArn |-> Undefined, cascaded |-> FALSE,
         calls |-> <<>>, invoked |-> <<>>, pre |-> [role |-> NoRole, fn |-> NoFn, url |-> NoUrl, perms |-> {}],
         failed |-> FALSE, caught |-> "", error |-> "", ret |-> NoRet]

Call(c, a, r) == [call |-> c, arg |-> a, res |-> r]

\* l with one more remote call in its log
Logged(l, c, a, r) == [l EXCEPT !.calls = Append(@, Call(c, a, r))]

\* l with one more call of a function of AwsIam / AwsLambda in its log
Invoking(l, m) == [l EXCEPT !.invoked = Append(@, m)]

\* an error response (other than an existence check's not-found) marks the run
Failing(l) == [l EXCEPT !.failed = TRUE]

CanFault == faults < MaxFaults

\* ---------------------------------------------------------- control flow
Continue(p, l) == /\ proc' = [proc EXCEPT ![p] = l]
                  /\ UNCHANGED <<prev, serving>>

\* the operation ends; its record stays until the process starts another
Finish(p, l) == /\ proc' = [proc EXCEPT ![p] = l]
                /\ UNCHANGED <<prev, serving>>

\* process p is between operations
AtRest(p) == proc[p].pc \in {"idle", "returned", "raised", "aborted"}

\* process p starts the operation l; the record of its last one moves to prev
Begin(p, l) == /\ proc' = [proc EXCEPT ![p] = l]
               /\ prev' = [prev EXCEPT ![p] = proc[p]]
               /\ UNCHANGED serving

Return(p, l, r) == Finish(p, [l EXCEPT !.pc = "returned", !.ret = r])

Throw(p, l, e) == Finish(p, [l EXCEPT !.pc = "raised", !.error = e])

\* ------------------------------------------------- the services' answers
\* Each operator is the set of answers the service can give in the current
\* remote state; "ServiceError" is a failure for an outside reason and
\* "incomplete" a success whose response lacks the identifier.
FaultAnswers(kinds) == IF CanFault THEN {[res |-> k, val |-> Undefined] : k \in kinds} ELSE {}

IsFault(a) == a.res \in {"ServiceError", "incomplete"}

FaultsAfter(a) == IF IsFault(a) THEN faults + 1 ELSE faults

\* GetRole; stale: whether a role not yet propagated may still be reported absent
GetRoleAnswers(stale) ==
  (IF ~role.exists THEN {[res |-> "NoSuchEntityException", val |-> Undefined]}
   ELSE {[res |-> "ok", val |-> role.arn]}
        \cup (IF ~role.propagated /\ stale
              THEN {[res |-> "NoSuchEntityException", val |-> Undefined]} ELSE {}))
  \cup FaultAnswers({"ServiceError"})

RoleAfterGet(a) == IF a.res = "ok" THEN [role EXCEPT !.propagated = TRUE] ELSE role

CreateRoleAnswers ==
  (IF role.exists THEN {[res |-> "EntityAlreadyExistsException", val |-> Undefined]}
   ELSE {[res |-> "ok", val |-> RoleArnOf(nextId)]})
  \cup FaultAnswers({"ServiceError"})
  \cup (IF role.exists THEN {} ELSE FaultAnswers({"incomplete"}))

RoleAfterCreate(a) ==
  IF a.res \in {"ok", "incomplete"}
  THEN [exists |-> TRUE, arn |-> RoleArnOf(nextId), attached |-> FALSE, propagated |-> FALSE]
  ELSE role

AttachRolePolicyAnswers ==
  (IF role.exists THEN {[res |-> "ok", val |-> Undefined]}
   ELSE {[res |-> "NoSuchEntityException", val |-> Undefined]})
  \cup FaultAnswers({"ServiceError"})

RoleAfterAttach(a) == IF a.res = "ok" THEN [role EXCEPT !.attached = TRUE] ELSE role

DeleteRoleAnswers ==
  (IF role.exists THEN {[res |-> "ok", val |-> Undefined]}
   ELSE {[res |-> "NoSuchEntityException", val |-> Undefined]})
  \cup FaultAnswers({"ServiceError"})

GetFunctionAnswers ==
  (IF fn.exists THEN {[res |-> "ok", val |-> fn.arn]}
   ELSE {[res |-> "ResourceNotFoundException", val |-> Undefined]})
  \cup FaultAnswers({"ServiceError"})

\* the function service validates the Role parameter when it creates
CreateFunctionAnswers(roleArn) ==
  (IF fn.exists THEN {[res |-> "ResourceConflictException", val |-> Undefined]}
   ELSE IF ~(role.exists /\ role.arn = roleArn)
        THEN {[res |-> "InvalidParameterValueException", val |-> Undefined]}
        ELSE {[res |-> "ok", val |-> FunctionArnOf(nextId)]})
  \cup FaultAnswers({"ServiceError"})
  \cup (IF fn.exists \/ ~(role.exists /\ role.arn = roleArn)
        THEN {} ELSE FaultAnswers({"incomplete"}))

UpdateFunctionCodeAnswers ==
  (IF fn.exists THEN {[res |-> "ok", val |-> fn.arn]}
   ELSE {[res |-> "ResourceNotFoundException", val |-> Undefined]})
  \cup FaultAnswers({"ServiceError"})

DeleteFunctionAnswers ==
  (IF fn.exists THEN {[res |-> "ok", val |-> Undefined]}
   ELSE {[res |-> "ResourceNotFoundException", val |-> Undefined]})
  \cup FaultAnswers({"ServiceError"})

GetFunctionUrlConfigAnswers ==
  (IF url.exists THEN {[res |-> "ok", val |-> url.url]}
   ELSE {[res |-> "ResourceNotFoundException", val |-> Undefined]})
  \cup FaultAnswers({"ServiceError"})

CreateFunctionUrlConfigAnswers ==
  (IF ~fn.exists THEN {[res |-> "ResourceNotFoundException", val |-> Undefined]}
   ELSE IF url.exists THEN {[res |-> "ResourceConflictException", val |-> Undefined]}
   ELSE {[res |-> "ok", val |-> FunctionUrlOf(nextId)]})
  \cup FaultAnswers({"ServiceError"})
  \cup (IF fn.exists /\ ~url.exists THEN FaultAnswers({"incomplete"}) ELSE {})

DeleteFunctionUrlConfigAnswers ==
  (IF url.exists THEN {[res |-> "ok", val |-> Undefined]}
   ELSE {[res |-> "ResourceNotFoundException", val |-> Undefined]})
  \cup FaultAnswers({"ServiceError"})

\* variant: everyone granted only when the URL asks for no authentication
Statement_ByAuthType(authType) ==
  [sid |-> StatementId, action |-> "lambda:InvokeFunctionUrl",
   principal |-> IF authType = "NONE" THEN "*" ELSE "account", authType |-> authType]

Statement(authType) == [sid |-> StatementId, action |-> "lambda:InvokeFunctionUrl",
                        principal |-> "*", authType |-> authType]

HasStatement(sid) == \E s \in perms : s.sid = sid

AddPermissionAnswers ==
  (IF ~fn.exists THEN {[res |-> "ResourceNotFoundException", val |-> Undefined]}
   ELSE IF HasStatement(StatementId)
        THEN {[res |-> "ResourceConflictException", val |-> Undefined]}
        ELSE {[res |-> "ok", val |-> Undefined]})
  \cup FaultAnswers({"ServiceError"})

\* ------------------------------------------------------------------- Init
InitRoles == {NoRole,
              [exists |-> TRUE, arn |-> RoleArnOf(0), attached |-> TRUE, propagated |-> TRUE]}
\* the package of a function deployed before: none that a run of the model uploads
EarlierPackage == MaxArtLen + 1

InitFns   == {NoFn,
              [exists |-> TRUE, arn |-> FunctionArnOf(0), role |-> RoleArnOf(0),
               code |-> EarlierPackage,
               handler |-> "index.handler", runtime |-> "nodejs20.x",
               architecture |-> "arm64", memorySize |-> 128, timeout |-> 30]}
InitUrls  == {NoUrl, [exists |-> TRUE, url |-> FunctionUrlOf(0), authType |-> "NONE",
                      cors |-> DefaultCors]}
InitPerms == {{}, {Statement("NONE")}}

Init ==
  /\ role \in InitRoles
  /\ fn \in InitFns
  /\ url \in InitUrls
  /\ perms \in InitPerms
  /\ nextId = 1
  /\ proc = [p \in Procs |-> Idle]
  /\ prev = [p \in Procs |-> Idle]
  /\ runs = 0
  /\ faults = 0
  /\ inv = <<>>
  /\ clock = 0

\* client.send resolved: the service carried the request out
Resolved(a) == a.res \in {"ok", "incomplete"}

\* variant: the response used without looking for its identifier
MissingIdentifier_Never(v) == FALSE

\* `if (!create.Role.Arn)`, `if (!response.FunctionArn)`, `if (!create.FunctionUrl)`
MissingIdentifier(v) == ~Truthy(v)

\* ------------------------------------------------ AwsIam (src/src/index.ts)
\* AwsIam.exists: the value returned for an answer of GetRole that does not throw
IamExistsValue(a) == IF a.res = "ok" /\ Truthy(a.val) THEN a.val ELSE Undefined

\* AwsIam.exists: whether the answer is rethrown
IamExistsThrows(a) == a.res /= "ok" /\ a.res /= "NoSuchEntityException"

\* AwsIam.create: the loop condition of the propagation poll
PollContinues(attempts) == attempts < maxAttempts

\* AwsIam.create: what one pass of the poll does to `attempts`
AttemptsAfterPoll(attempts) == attempts

\* ------------------------------------------ AwsLambda (src/unnamed/part_004)
\* variant: the runtime passed on unchecked
ValidRuntime_Any(runtime) == TRUE

ValidRuntime(runtime) == runtime \in RuntimeValues

ValidArchitecture(architecture) == architecture \in ArchitectureValues

\* variant: the archive's length not checked
ZipIsEmpty_Never(art) == FALSE

\* readZipFileBytes throws on an empty archive
ZipIsEmpty(art) == art = 0

\* variant: every error taken for "not found"
LambdaExistsThrows_Never(a) == FALSE

LambdaExistsThrows(a) == a.res /= "ok" /\ a.res /= "ResourceNotFoundException"

\* variant: the function taken to exist whatever GetFunction answered
LambdaExistsValue_Always(a) == TRUE

LambdaExistsValue(a) == a.res = "ok"

FunctionUrlExistsThrows(a) == a.res /= "ok" /\ a.res /= "ResourceNotFoundException"

FunctionUrlExistsValue(a) == IF a.res = "ok" THEN a.val ELSE Undefined

\* variant: no early return
UrlEarlyReturn_Never(functionUrl) == FALSE

\* variant: the early return taken whatever functionUrlExists answered
UrlEarlyReturn_Always(functionUrl) == TRUE

\* createFunctionUrl returns the existing URL without creating anything
UrlEarlyReturn(functionUrl) == Truthy(functionUrl)

\* variant: every error of AddPermission ignored
SwallowsAddPermissionError_Any(name) == TRUE

\* variant: no error of AddPermission ignored
SwallowsAddPermissionError_Never(name) == FALSE

\* createFunctionUrl ignores this error of AddPermission
SwallowsAddPermissionError(name) == name = "ResourceConflictException"

\* ---------------------------- LambdaApiExample (src/unnamed/part_001)
DeployMessage(functionUrl) == [text |-> "Lambda deployed on url ", value |-> functionUrl]

DestroyMessage == [text |-> "Lambda function lambda-example successfully destroyed",
                   value |-> EmptyString]

\* variant: the role created whatever iam.exists answered
DeployCreatesRole_Always(roleArn) == TRUE

\* variant: the role never created
DeployCreatesRole_Never(roleArn) == FALSE

\* deploy: `if (!roleArn)`
DeployCreatesRole(roleArn) == ~Truthy(roleArn)

\* variant: the branch taken the wrong way round
DeployCreatesFunction_Inverted(exists) == exists

\* deploy: `if (!(await lambda.exists(...)))`
DeployCreatesFunction(exists) == ~exists

\* ------------------------------------------------------------------ deploy
Start(op) == [Idle EXCEPT !.op = op, !.pre = Snapshot]

Deploy_Start(p) ==
  /\ AtRest(p)
  /\ runs < MaxRuns
  /\ runs' = runs + 1
  /\ \E art \in 0..MaxArtLen :
       Begin(p, [Start("deploy") EXCEPT !.pc = "deploy_test", !.art = art,
                                              !.runtime = "nodejs20.x",
                                              !.architecture = "arm64",
                                              !.authType = "NONE",
                                              !.cors = DefaultCors])
  /\ UNCHANGED <<remote, faults>>

\* variant: the test step started and its outcome not waited for
AwaitsTest_No == FALSE

\* `await this.test()`: a failing test step rejects deploy's promise
AwaitsTest == TRUE

\* await this.test()
Deploy_Test(p) ==
  /\ proc[p].pc = "deploy_test"
  /\ \/ /\ Continue(p, [proc[p] EXCEPT !.pc = "deploy_iam_exists"])
        /\ UNCHANGED faults
     \/ /\ CanFault
        /\ faults' = faults + 1
        /\ IF AwaitsTest
           THEN Throw(p, proc[p], "TestsFailed")
           ELSE Continue(p, [proc[p] EXCEPT !.error = "TestsFailed",
                                            !.pc = "deploy_iam_exists"])
  /\ UNCHANGED <<remote, runs>>

\* let roleArn = await iam.exists(this.roleName); if (!roleArn) ...
Deploy_IamExists(p) ==
  /\ proc[p].pc = "deploy_iam_exists"
  /\ \E a \in GetRoleAnswers(TRUE) :
       LET l == Logged(proc[p], "GetRole", RoleNameValue, a.res) IN
       /\ role' = RoleAfterGet(a)
       /\ faults' = FaultsAfter(a)
       /\ IF IamExistsThrows(a)
          THEN Throw(p, Failing(l), a.res)
          ELSE IF DeployCreatesRole(IamExistsValue(a))
               THEN Continue(p, [Invoking(l, "iam.create")
                                   EXCEPT !.roleArn = IamExistsValue(a),
                                          !.pc = "iam_create_role"])
               ELSE Continue(p, [l EXCEPT !.roleArn = IamExistsValue(a),
                                          !.pc = "deploy_lambda_exists"])
  /\ UNCHANGED <<fn, url, perms, nextId, runs>>

\* AwsIam.create, CreateRoleCommand and the check of its response
IamCreate_CreateRole(p) ==
  /\ proc[p].pc = "iam_create_role"
  /\ \E a \in CreateRoleAnswers :
       LET l == Logged(proc[p], "CreateRole", RoleNameValue, a.res) IN
       /\ role' = RoleAfterCreate(a)
       /\ nextId' = IF a.res \in {"ok", "incomplete"} THEN nextId + 1 ELSE nextId
       /\ faults' = FaultsAfter(a)
       /\ IF Resolved(a) /\ ~MissingIdentifier(a.val)
          THEN Continue(p, [l EXCEPT !.createdArn = a.val, !.pc = "iam_attach_policy"])
          ELSE Throw(p, Failing(l),
                     IF a.res = "incomplete" THEN "Failed to create role" ELSE a.res)
  /\ UNCHANGED <<fn, url, perms, runs>>

\* AwsIam.create, AttachRolePolicyCommand
IamCreate_AttachRolePolicy(p) ==
  /\ proc[p].pc = "iam_attach_policy"
  /\ \E a \in AttachRolePolicyAnswers :
       LET l == Logged(proc[p], "AttachRolePolicy", RoleNameValue, a.res) IN
       /\ role' = RoleAfterAttach(a)
       /\ faults' = FaultsAfter(a)
       /\ IF a.res = "ok"
          THEN Continue(p, [l EXCEPT !.attempts = 0, !.polls = 0, !.pc = "iam_poll"])
          ELSE Throw(p, Failing(l), a.res)
  /\ UNCHANGED <<fn, url, perms, nextId, runs>>

\* variant: AwsIam.create returning the name instead of the ARN it was given
IamCreate_Return_Name(p, l) ==
  Continue(p, [l EXCEPT !.roleArn = RoleNameValue, !.pc = "deploy_lambda_exists"])

\* AwsIam.create returns the outer roleArn to deploy
IamCreate_Return(p, l) ==
  Continue(p, [l EXCEPT !.roleArn = l.createdArn, !.pc = "deploy_lambda_exists"])

\* AwsIam.create, one pass of `while (attempts < maxAttempts)`
IamCreate_Poll(p) ==
  /\ proc[p].pc = "iam_poll"
  /\ IF ~PollContinues(proc[p].attempts)
     THEN /\ IamCreate_Return(p, proc[p])
          /\ UNCHANGED <<role, faults>>
     ELSE \E a \in GetRoleAnswers(proc[p].polls + 1 < PollCap) :
            LET l == [Logged(proc[p], "GetRole", RoleNameValue, a.res)
                        EXCEPT !.polls = @ + 1] IN
            /\ role' = RoleAfterGet(a)
            /\ faults' = FaultsAfter(a)
            /\ IF IamExistsThrows(a)
               THEN Throw(p, Failing(l), a.res)
               ELSE IF Truthy(IamExistsValue(a))
                    THEN IamCreate_Return(p, l)
                    ELSE Continue(p, [l EXCEPT !.attempts = AttemptsAfterPoll(@)])
  /\ UNCHANGED <<fn, url, perms, nextId, runs>>

\* if (!(await lambda.exists(this.functionName))) create else updateCode
Deploy_LambdaExists(p) ==
  /\ proc[p].pc = "deploy_lambda_exists"
  /\ \E a \in GetFunctionAnswers :
       LET l == Logged(proc[p], "GetFunction", FunctionNameValue, a.res) IN
       /\ faults' = FaultsAfter(a)
       /\ IF LambdaExistsThrows(a)
          THEN Throw(p, Failing(l), a.res)
          ELSE IF DeployCreatesFunction(LambdaExistsValue(a))
               THEN Continue(p, [Invoking(l, "lambda.create") EXCEPT !.pc = "lambda_create"])
               ELSE Continue(p, [Invoking(l, "lambda.updateCode")
                                   EXCEPT !.pc = "lambda_update_code"])
  /\ UNCHANGED <<remote, runs>>

FnAfterCreate(l, a) ==
  IF a.res \in {"ok", "incomplete"}
  THEN [exists |-> TRUE, arn |-> FunctionArnOf(nextId), role |-> l.roleArn, code |-> l.art,
        handler |-> "index.handler", runtime |-> l.runtime,
        architecture |-> l.architecture, memorySize |-> 128, timeout |-> 30]
  ELSE fn

\* what follows a successful lambda.create / lambda.updateCode
AfterFunctionStep(p, l, arn) ==
  IF l.op = "deploy"
  THEN Continue(p, [Invoking(l, "lambda.createFunctionUrl") EXCEPT !.pc = "url_exists"])
  ELSE Return(p, l, [text |-> "", value |-> arn])

\* AwsLambda.create: the two validations, the archive, CreateFunctionCommand
LambdaCreate(p) ==
  /\ proc[p].pc = "lambda_create"
  /\ IF ~ValidRuntime(proc[p].runtime)
     THEN /\ Throw(p, proc[p], "Unsupported runtime")
          /\ UNCHANGED <<fn, nextId, faults>>
     ELSE IF ~ValidArchitecture(proc[p].architecture)
     THEN /\ Throw(p, proc[p], "Unsupported architecture")
          /\ UNCHANGED <<fn, nextId, faults>>
     ELSE IF ZipIsEmpty(proc[p].art)
     THEN /\ Throw(p, proc[p], "Zip file is empty")
          /\ UNCHANGED <<fn, nextId, faults>>
     ELSE \E a \in CreateFunctionAnswers(proc[p].roleArn) :
            LET l == Logged(proc[p], "CreateFunction", proc[p].roleArn, a.res) IN
            /\ fn' = FnAfterCreate(proc[p], a)
            /\ nextId' = IF a.res \in {"ok", "incomplete"} THEN nextId + 1 ELSE nextId
            /\ faults' = FaultsAfter(a)
            /\ IF Resolved(a) /\ ~MissingIdentifier(a.val)
               THEN AfterFunctionStep(p, l, a.val)
               ELSE Throw(p, Failing(l),
                          IF a.res = "incomplete" THEN "Failed to create Lambda function"
                          ELSE a.res)
  /\ UNCHANGED <<role, url, perms, runs>>

\* variant: the function made anew from the archive
FnAfterUpdate_Recreate(l, a) == FnAfterCreate(l, a)

\* UpdateFunctionCodeCommand({FunctionName, ZipFile}) puts the archive in place
FnAfterUpdate(l, a) == IF a.res = "ok" THEN [fn EXCEPT !.code = l.art] ELSE fn

\* AwsLambda.updateCode: the archive, UpdateFunctionCodeCommand
LambdaUpdateCode(p) ==
  /\ proc[p].pc = "lambda_update_code"
  /\ IF ZipIsEmpty(proc[p].art)
     THEN /\ Throw(p, proc[p], "Zip file is empty")
          /\ UNCHANGED <<fn, faults>>
     ELSE \E a \in UpdateFunctionCodeAnswers :
            LET l == Logged(proc[p], "UpdateFunctionCode", FunctionNameValue, a.res) IN
            /\ fn' = FnAfterUpdate(proc[p], a)
            /\ faults' = FaultsAfter(a)
            /\ IF a.res = "ok"
               THEN AfterFunctionStep(p, l, Undefined)
               ELSE Throw(p, Failing(l), a.res)
  /\ UNCHANGED <<role, url, perms, nextId, runs>>

\* deploy wraps createFunctionUrl in try/catch and logs the error
DeployCatches(e) == TRUE

\* createFunctionUrl returns u to its caller; deploy then returns its message
UrlReturn(p, l, u) ==
  IF l.op = "deploy"
  THEN Return(p, [l EXCEPT !.functionUrl = u], DeployMessage(u))
  ELSE Return(p, l, [text |-> "", value |-> u])

\* createFunctionUrl throws e to its caller
UrlThrow(p, l, e) ==
  IF l.op = "deploy" /\ DeployCatches(e)
  THEN Return(p, [l EXCEPT !.caught = e], DeployMessage(l.functionUrl))
  ELSE Throw(p, l, e)

\* AwsLambda.createFunctionUrl: functionUrlExists and the early return
CreateFunctionUrl_Exists(p) ==
  /\ proc[p].pc = "url_exists"
  /\ \E a \in GetFunctionUrlConfigAnswers :
       LET l == Logged(proc[p], "GetFunctionUrlConfig", FunctionNameValue, a.res) IN
       /\ faults' = FaultsAfter(a)
       /\ IF FunctionUrlExistsThrows(a)
          THEN UrlThrow(p, Failing(l), a.res)
          ELSE IF UrlEarlyReturn(FunctionUrlExistsValue(a))
               THEN UrlReturn(p, l, FunctionUrlExistsValue(a))
               ELSE Continue(p, [l EXCEPT !.pc = "url_create"])
  /\ UNCHANGED <<remote, runs>>

UrlAfterCreate(l, a) ==
  IF a.res \in {"ok", "incomplete"}
  THEN [exists |-> TRUE, url |-> FunctionUrlOf(nextId), authType |-> l.authType,
        cors |-> l.cors]
  ELSE url

\* AwsLambda.createFunctionUrl: CreateFunctionUrlConfigCommand and its check
CreateFunctionUrl_Create(p) ==
  /\ proc[p].pc = "url_create"
  /\ \E a \in CreateFunctionUrlConfigAnswers :
       LET l == Logged(proc[p], "CreateFunctionUrlConfig",
                       <<proc[p].authType, 0>>, a.res) IN
       /\ url' = UrlAfterCreate(proc[p], a)
       /\ nextId' = IF a.res \in {"ok", "incomplete"} THEN nextId + 1 ELSE nextId
       /\ faults' = FaultsAfter(a)
       /\ IF Resolved(a) /\ ~MissingIdentifier(a.val)
          THEN Continue(p, [l EXCEPT !.createUrl = a.val, !.pc = "url_add_permission"])
          ELSE UrlThrow(p, Failing(l),
                        IF a.res = "incomplete"
                        THEN "Failed to create function URL - no URL returned"
                        ELSE a.res)
  /\ UNCHANGED <<role, fn, perms, runs>>

\* AwsLambda.createFunctionUrl: AddPermissionCommand in its try/catch
CreateFunctionUrl_AddPermission(p) ==
  /\ proc[p].pc = "url_add_permission"
  /\ \E a \in AddPermissionAnswers :
       LET l == Logged(proc[p], "AddPermission", <<proc[p].authType, 0>>, a.res) IN
       /\ perms' = IF a.res = "ok" THEN perms \cup {Statement(proc[p].authType)} ELSE perms
       /\ faults' = FaultsAfter(a)
       /\ IF a.res = "ok" \/ SwallowsAddPermissionError(a.res)
          THEN UrlReturn(p, l, proc[p].createUrl)
          ELSE UrlThrow(p, Failing(l), a.res)
  /\ UNCHANGED <<role, fn, url, nextId, runs>>

\* the invocation is cancelled from outside while deploy awaits a step; deploy
\* has no handler for it, so the run stops where it is
Deploy_Abort(p) ==
  /\ proc[p].op = "deploy"
  /\ ~AtRest(p)
  /\ CanFault
  /\ faults' = faults + 1
  /\ Finish(p, [proc[p] EXCEPT !.pc = "aborted", !.error = "Cancelled"])
  /\ UNCHANGED <<remote, runs>>

\* ----------------------------------------------------------------- destroy
\* variant: destroy beginning with the role
DestroyFirst_Role == "destroy_iam_exists"

\* the order of destroy's three blocks
DestroyFirst == "destroy_lambda_exists"

DestroyAfterFunction == "destroy_iam_exists"

DestroyAfterRole == "destroy_url_exists"

Destroy_Start(p) ==
  /\ AtRest(p)
  /\ runs < MaxRuns
  /\ runs' = runs + 1
  /\ Begin(p, [Start("destroy") EXCEPT !.pc = DestroyFirst])
  /\ UNCHANGED <<remote, faults>>

\* if (await lambda.exists(this.functionName))
Destroy_LambdaExists(p) ==
  /\ proc[p].pc = "destroy_lambda_exists"
  /\ \E a \in GetFunctionAnswers :
       LET l == Logged(proc[p], "GetFunction", FunctionNameValue, a.res) IN
       /\ faults' = FaultsAfter(a)
       /\ IF LambdaExistsThrows(a)
          THEN Throw(p, Failing(l), a.res)
          ELSE IF LambdaExistsValue(a)
               THEN Continue(p, [Invoking(l, "lambda.remove")
                                   EXCEPT !.pc = "destroy_lambda_remove"])
               ELSE Continue(p, [l EXCEPT !.pc = DestroyAfterFunction])
  /\ UNCHANGED <<remote, runs>>

\* variant: the error of DeleteFunction logged and not thrown again
RemoveThrows_Never(a) == FALSE

\* AwsLambda.remove: `catch (error) { console.error(...); throw error; }`
RemoveThrows(a) == a.res /= "ok"

\* AwsLambda.remove; whether the platform drops the function's URL
\* configuration and resource policy with it is the platform's choice
Destroy_LambdaRemove(p) ==
  /\ proc[p].pc = "destroy_lambda_remove"
  /\ \E a \in DeleteFunctionAnswers, cascade \in BOOLEAN :
       LET l == Logged(proc[p], "DeleteFunction", FunctionNameValue, a.res) IN
       /\ fn' = IF a.res = "ok" THEN NoFn ELSE fn
       /\ url' = IF a.res = "ok" /\ cascade THEN NoUrl ELSE url
       /\ perms' = IF a.res = "ok" /\ cascade THEN {} ELSE perms
       /\ faults' = FaultsAfter(a)
       /\ a.res /= "ok" => ~cascade
       /\ IF RemoveThrows(a)
          THEN Throw(p, Failing(l), a.res)
          ELSE Continue(p, [l EXCEPT !.cascaded = cascade, !.pc = DestroyAfterFunction])
  /\ UNCHANGED <<role, nextId, runs>>

\* if (await iam.exists(this.roleName))
Destroy_IamExists(p) ==
  /\ proc[p].pc = "destroy_iam_exists"
  /\ \E a \in GetRoleAnswers(TRUE) :
       LET l == Logged(proc[p], "GetRole", RoleNameValue, a.res) IN
       /\ role' = RoleAfterGet(a)
       /\ faults' = FaultsAfter(a)
       /\ IF IamExistsThrows(a)
          THEN Throw(p, Failing(l), a.res)
          ELSE IF Truthy(IamExistsValue(a))
               THEN Continue(p, [Invoking(l, "iam.remove") EXCEPT !.pc = "destroy_iam_remove"])
               ELSE Continue(p, [l EXCEPT !.pc = DestroyAfterRole])
  /\ UNCHANGED <<fn, url, perms, nextId, runs>>

\* AwsIam.remove
Destroy_IamRemove(p) ==
  /\ proc[p].pc = "destroy_iam_remove"
  /\ \E a \in DeleteRoleAnswers :
       LET l == Logged(proc[p], "DeleteRole", RoleNameValue, a.res) IN
       /\ role' = IF a.res = "ok" THEN NoRole ELSE role
       /\ faults' = FaultsAfter(a)
       /\ IF a.res = "ok"
          THEN Continue(p, [l EXCEPT !.pc = DestroyAfterRole])
          ELSE Throw(p, Failing(l), a.res)
  /\ UNCHANGED <<fn, url, perms, nextId, runs>>

\* if (await lambda.functionUrlExists(this.functionName)) ... else return
Destroy_FunctionUrlExists(p) ==
  /\ proc[p].pc = "destroy_url_exists"
  /\ \E a \in GetFunctionUrlConfigAnswers :
       LET l == Logged(proc[p], "GetFunctionUrlConfig", FunctionNameValue, a.res) IN
       /\ faults' = FaultsAfter(a)
       /\ IF FunctionUrlExistsThrows(a)
          THEN Throw(p, Failing(l), a.res)
          ELSE IF Truthy(FunctionUrlExistsValue(a))
               THEN Continue(p, [Invoking(l, "lambda.deleteFunctionUrl")
                                   EXCEPT !.pc = "destroy_url_delete"])
               ELSE Return(p, l, DestroyMessage)
  /\ UNCHANGED <<remote, runs>>

\* AwsLambda.deleteFunctionUrl, then destroy returns its message
Destroy_DeleteFunctionUrl(p) ==
  /\ proc[p].pc = "destroy_url_delete"
  /\ \E a \in DeleteFunctionUrlConfigAnswers :
       LET l == Logged(proc[p], "DeleteFunctionUrlConfig", FunctionNameValue, a.res) IN
       /\ url' = IF a.res = "ok" THEN NoUrl ELSE url
       /\ faults' = FaultsAfter(a)
       /\ IF a.res = "ok"
          THEN Return(p, l, DestroyMessage)
          ELSE Throw(p, Failing(l), a.res)
  /\ UNCHANGED <<role, fn, perms, nextId, runs>>

\* ------------------------------------- AwsLambda's functions called directly
\* lambda.createFunctionUrl(functionName, authType)
CreateFunctionUrl_Start(p) ==
  /\ AtRest(p)
  /\ runs < MaxRuns
  /\ runs' = runs + 1
  /\ \E authType \in AuthTypeInputs :
       Begin(p, [Invoking(Start("createFunctionUrl"), "lambda.createFunctionUrl") EXCEPT !.pc = "url_exists",
                            !.authType = authType,
                            !.cors = DefaultCors])
  /\ UNCHANGED <<remote, faults>>

\* lambda.createFunctionUrl(functionName, authType, allowedCorsOrigins,
\* allowedCorsHeaders, allowedCorsMethods, allowCredentials)
CreateFunctionUrl_StartWithCors(p) ==
  /\ AtRest(p)
  /\ runs < MaxRuns
  /\ runs' = runs + 1
  /\ \E authType \in AuthTypeInputs, cors \in CorsInputs \ {DefaultCors} :
       Begin(p, [Invoking(Start("createFunctionUrl"), "lambda.createFunctionUrl") EXCEPT !.pc = "url_exists",
                            !.authType = authType,
                            !.cors = cors])
  /\ UNCHANGED <<remote, faults>>

\* a boolean result as a value
BoolValue(b) == IF b THEN <<"true", 0>> ELSE <<"false", 0>>

\* the run of an existence check called directly: one remote call, then the
\* result or the error
ExistsRun(op, c, name, a, throws, value) ==
  LET l == Logged(Invoking(Start(op), op), c, name, a.res) IN
  IF throws
  THEN [Failing(l) EXCEPT !.pc = "raised", !.error = a.res]
  ELSE [l EXCEPT !.pc = "returned", !.ret = [text |-> "", value |-> value]]

\* iam.exists(roleName)
IamExists(p) ==
  /\ AtRest(p)
  /\ runs < MaxRuns
  /\ runs' = runs + 1
  /\ \E a \in GetRoleAnswers(TRUE) :
       /\ role' = RoleAfterGet(a)
       /\ faults' = FaultsAfter(a)
       /\ Begin(p, ExistsRun("iam.exists", "GetRole", RoleNameValue, a,
                             IamExistsThrows(a), IamExistsValue(a)))
  /\ UNCHANGED <<fn, url, perms, nextId>>

\* lambda.exists(functionName)
LambdaExists(p) ==
  /\ AtRest(p)
  /\ runs < MaxRuns
  /\ runs' = runs + 1
  /\ \E a \in GetFunctionAnswers :
       /\ faults' = FaultsAfter(a)
       /\ Begin(p, ExistsRun("lambda.exists", "GetFunction", FunctionNameValue, a,
                             LambdaExistsThrows(a), BoolValue(LambdaExistsValue(a))))
  /\ UNCHANGED remote

\* lambda.functionUrlExists(functionName)
FunctionUrlExists(p) ==
  /\ AtRest(p)
  /\ runs < MaxRuns
  /\ runs' = runs + 1
  /\ \E a \in GetFunctionUrlConfigAnswers :
       /\ faults' = FaultsAfter(a)
       /\ Begin(p, ExistsRun("lambda.functionUrlExists", "GetFunctionUrlConfig",
                             FunctionNameValue, a,
                             FunctionUrlExistsThrows(a), FunctionUrlExistsValue(a)))
  /\ UNCHANGED remote

\* lambda.deleteFunctionUrl(functionName), called by an operator or another
\* tool: DeleteFunctionUrlConfigCommand, its error logged and thrown again
DeleteFunctionUrl(p) ==
  /\ AtRest(p)
  /\ runs < MaxRuns
  /\ runs' = runs + 1
  /\ \E a \in DeleteFunctionUrlConfigAnswers :
       /\ url' = IF a.res = "ok" THEN NoUrl ELSE url
       /\ faults' = FaultsAfter(a)
       /\ Begin(p, ExistsRun("lambda.deleteFunctionUrl", "DeleteFunctionUrlConfig",
                             FunctionNameValue, a, a.res /= "ok", Undefined))
  /\ UNCHANGED <<role, fn, perms, nextId>>

\* lambda.create(functionName, roleArn, handler, runtime, zipFile, ..., architecture)
Create_Start(p) ==
  /\ AtRest(p)
  /\ runs < MaxRuns
  /\ runs' = runs + 1
  /\ \E runtime \in RuntimeInputs, architecture \in ArchitectureInputs, art \in 0..MaxArtLen :
       Begin(p, [Invoking(Start("create"), "lambda.create") EXCEPT !.pc = "lambda_create",
                                              !.runtime = runtime,
                                              !.architecture = architecture,
                                              !.art = art,
                                              !.roleArn = role.arn])
  /\ UNCHANGED <<remote, faults>>

\* ------------------------------------------------------------------- Next
Next ==
  \E p \in Procs :
    \/ Deploy_Start(p)
    \/ Deploy_Test(p)
    \/ Deploy_IamExists(p)
    \/ IamCreate_CreateRole(p)
    \/ IamCreate_AttachRolePolicy(p)
    \/ IamCreate_Poll(p)
    \/ Deploy_LambdaExists(p)
    \/ LambdaCreate(p)
    \/ LambdaUpdateCode(p)
    \/ CreateFunctionUrl_Exists(p)
    \/ CreateFunctionUrl_Create(p)
    \/ CreateFunctionUrl_AddPermission(p)
    \/ Deploy_Abort(p)
    \/ Destroy_Start(p)
    \/ Destroy_LambdaExists(p)
    \/ Destroy_LambdaRemove(p)
    \/ Destroy_IamExists(p)
    \/ Destroy_IamRemove(p)
    \/ Destroy_FunctionUrlExists(p)
    \/ Destroy_DeleteFunctionUrl(p)
    \/ CreateFunctionUrl_Start(p)
    \/ Create_Start(p)
    \/ IamExists(p)
    \/ LambdaExists(p)
    \/ FunctionUrlExists(p)

Spec == Init /\ [][Next]_vars

\* ------------------------------------------ two pipelines deploying at once
\* two invocations of deploy for the same role name and function name; each
\* remote call of either is one step, in any interleaving
Deployers == {1, 2}

ConcurrentInit ==
  /\ role \in InitRoles
  /\ fn \in InitFns
  /\ url \in InitUrls
  /\ perms \in InitPerms
  /\ nextId = 1
  /\ proc = [p \in Deployers |-> Idle]
  /\ prev = [p \in Deployers |-> Idle]
  /\ runs = 0
  /\ faults = 0
  /\ inv = <<>>
  /\ clock = 0

ConcurrentNext ==
  \E p \in Deployers :
    \/ Deploy_Start(p)
    \/ Deploy_Test(p)
    \/ Deploy_IamExists(p)
    \/ IamCreate_CreateRole(p)
    \/ IamCreate_AttachRolePolicy(p)
    \/ IamCreate_Poll(p)
    \/ Deploy_LambdaExists(p)
    \/ LambdaCreate(p)
    \/ LambdaUpdateCode(p)
    \/ CreateFunctionUrl_Exists(p)
    \/ CreateFunctionUrl_Create(p)
    \/ CreateFunctionUrl_AddPermission(p)

ConcurrentSpec == ConcurrentInit /\ [][ConcurrentNext]_vars

\* ------------------- deploys, URL creations and URL deletions in any order
UrlNext ==
  \E p \in Procs :
    \/ Deploy_Start(p)
    \/ Deploy_Test(p)
    \/ Deploy_IamExists(p)
    \/ IamCreate_CreateRole(p)
    \/ IamCreate_AttachRolePolicy(p)
    \/ IamCreate_Poll(p)
    \/ Deploy_LambdaExists(p)
    \/ LambdaCreate(p)
    \/ LambdaUpdateCode(p)
    \/ CreateFunctionUrl_Exists(p)
    \/ CreateFunctionUrl_Create(p)
    \/ CreateFunctionUrl_AddPermission(p)
    \/ CreateFunctionUrl_Start(p)
    \/ CreateFunctionUrl_StartWithCors(p)
    \/ DeleteFunctionUrl(p)

UrlSpec == Init /\ [][UrlNext]_vars

\* -------------------------------------------------- deploy runs, in sequence
DeployNext ==
  \E p \in Procs :
    \/ Deploy_Start(p)
    \/ Deploy_Test(p)
    \/ Deploy_IamExists(p)
    \/ IamCreate_CreateRole(p)
    \/ IamCreate_AttachRolePolicy(p)
    \/ IamCreate_Poll(p)
    \/ Deploy_LambdaExists(p)
    \/ LambdaCreate(p)
    \/ LambdaUpdateCode(p)
    \/ CreateFunctionUrl_Exists(p)
    \/ CreateFunctionUrl_Create(p)
    \/ CreateFunctionUrl_AddPermission(p)
    \/ Deploy_Abort(p)

DeploySpec == Init /\ [][DeployNext]_vars

\* ------------------------------------------------- destroy runs, in sequence
DestroyNext ==
  \E p \in Procs :
    \/ Destroy_Start(p)
    \/ Destroy_LambdaExists(p)
    \/ Destroy_LambdaRemove(p)
    \/ Destroy_IamExists(p)
    \/ Destroy_IamRemove(p)
    \/ Destroy_FunctionUrlExists(p)
    \/ Destroy_DeleteFunctionUrl(p)

DestroySpec == Init /\ [][DestroyNext]_vars

\* ----------------------------- the single-class LambdaExample and its deploy
\* roleExists and functionExists: true when the service answers, false on
\* NoSuchEntityException / ResourceNotFoundException, any other error thrown
\* createFunction(client, functionName, roleName, zipFile) sends `Role: roleName`,
\* and deploy hands it this.roleName
Example_RoleParameter(l) == RoleNameValue

Example_FnAfterCreate(l, a) ==
  IF a.res \in {"ok", "incomplete"}
  THEN [exists |-> TRUE, arn |-> FunctionArnOf(nextId), role |-> Example_RoleParameter(l),
        code |-> l.art, handler |-> "index.handler", runtime |-> "nodejs20.x",
        architecture |-> "arm64", memorySize |-> 256, timeout |-> 10]
  ELSE fn

Example_Deploy_Start(p) ==
  /\ AtRest(p)
  /\ runs < MaxRuns
  /\ runs' = runs + 1
  /\ \E art \in 0..MaxArtLen :
       Begin(p, [Start("example.deploy") EXCEPT !.pc = "example_role_exists", !.art = art,
                                                      !.runtime = "nodejs20.x",
                                                      !.architecture = "arm64",
                                                      !.authType = "NONE",
                                                      !.cors = DefaultCors])
  /\ UNCHANGED <<remote, faults>>

\* if (!(await this.roleExists(iamClient, this.roleName))) createRole
Example_Deploy_RoleExists(p) ==
  /\ proc[p].pc = "example_role_exists"
  /\ \E a \in GetRoleAnswers(TRUE) :
       LET l == Logged(proc[p], "GetRole", RoleNameValue, a.res) IN
       /\ role' = RoleAfterGet(a)
       /\ faults' = FaultsAfter(a)
       /\ IF a.res \notin {"ok", "NoSuchEntityException"}
          THEN Throw(p, Failing(l), a.res)
          ELSE IF a.res /= "ok"
               THEN Continue(p, [Invoking(l, "createRole")
                                   EXCEPT !.pc = "example_create_role_exists"])
               ELSE Continue(p, [l EXCEPT !.pc = "example_function_exists"])
  /\ UNCHANGED <<fn, url, perms, nextId, runs>>

\* createRole: if (await this.roleExists(client, roleName))
Example_CreateRole_RoleExists(p) ==
  /\ proc[p].pc = "example_create_role_exists"
  /\ \E a \in GetRoleAnswers(TRUE) :
       LET l == Logged(proc[p], "GetRole", RoleNameValue, a.res) IN
       /\ role' = RoleAfterGet(a)
       /\ faults' = FaultsAfter(a)
       /\ IF a.res \notin {"ok", "NoSuchEntityException"}
          THEN Throw(p, Failing(l), a.res)
          ELSE IF a.res = "ok"
               THEN Continue(p, [l EXCEPT !.pc = "example_create_role_get"])
               ELSE Continue(p, [l EXCEPT !.pc = "example_create_role"])
  /\ UNCHANGED <<fn, url, perms, nextId, runs>>

\* createRole: GetRoleCommand outside any try; its ARN returned when there is one.
\* deploy does not keep what createRole returns
Example_CreateRole_GetRole(p) ==
  /\ proc[p].pc = "example_create_role_get"
  /\ \E a \in GetRoleAnswers(TRUE) :
       LET l == Logged(proc[p], "GetRole", RoleNameValue, a.res) IN
       /\ role' = RoleAfterGet(a)
       /\ faults' = FaultsAfter(a)
       /\ IF a.res /= "ok"
          THEN Throw(p, Failing(l), a.res)
          ELSE IF Truthy(a.val)
               THEN Continue(p, [l EXCEPT !.createdArn = a.val,
                                          !.pc = "example_function_exists"])
               ELSE Continue(p, [l EXCEPT !.pc = "example_create_role"])
  /\ UNCHANGED <<fn, url, perms, nextId, runs>>

\* createRole: CreateRoleCommand and the check of its response
Example_CreateRole_CreateRole(p) ==
  /\ proc[p].pc = "example_create_role"
  /\ \E a \in CreateRoleAnswers :
       LET l == Logged(proc[p], "CreateRole", RoleNameValue, a.res) IN
       /\ role' = RoleAfterCreate(a)
       /\ nextId' = IF a.res \in {"ok", "incomplete"} THEN nextId + 1 ELSE nextId
       /\ faults' = FaultsAfter(a)
       /\ IF Resolved(a) /\ Truthy(a.val)
          THEN Continue(p, [l EXCEPT !.createdArn = a.val,
                                     !.pc = "example_attach_policy"])
          ELSE Throw(p, Failing(l),
                     IF a.res = "incomplete"
                     THEN "Failed to create role - no ARN returned" ELSE a.res)
  /\ UNCHANGED <<fn, url, perms, runs>>

\* createRole: AttachRolePolicyCommand, then the created ARN returned
Example_CreateRole_AttachRolePolicy(p) ==
  /\ proc[p].pc = "example_attach_policy"
  /\ \E a \in AttachRolePolicyAnswers :
       LET l == Logged(proc[p], "AttachRolePolicy", RoleNameValue, a.res) IN
       /\ role' = RoleAfterAttach(a)
       /\ faults' = FaultsAfter(a)
       /\ IF a.res = "ok"
          THEN Continue(p, [l EXCEPT !.pc = "example_function_exists"])
          ELSE Throw(p, Failing(l), a.res)
  /\ UNCHANGED <<fn, url, perms, nextId, runs>>

\* if (!(await this.functionExists(...))) createFunction else updateFunctionCode
Example_Deploy_FunctionExists(p) ==
  /\ proc[p].pc = "example_function_exists"
  /\ \E a \in GetFunctionAnswers :
       LET l == Logged(proc[p], "GetFunction", FunctionNameValue, a.res) IN
       /\ faults' = FaultsAfter(a)
       /\ IF a.res \notin {"ok", "ResourceNotFoundException"}
          THEN Throw(p, Failing(l), a.res)
          ELSE IF a.res /= "ok"
               THEN Continue(p, [Invoking(l, "createFunction")
                                   EXCEPT !.pc = "example_create_function"])
               ELSE Continue(p, [Invoking(l, "updateFunctionCode")
                                   EXCEPT !.pc = "example_update_code"])
  /\ UNCHANGED <<remote, runs>>

\* createFunction: readZipFileBytes, CreateFunctionCommand and its check
Example_CreateFunction(p) ==
  /\ proc[p].pc = "example_create_function"
  /\ IF ZipIsEmpty(proc[p].art)
     THEN /\ Throw(p, proc[p], "Zip file is empty")
          /\ UNCHANGED <<fn, nextId, faults>>
     ELSE \E a \in CreateFunctionAnswers(Example_RoleParameter(proc[p])) :
            LET l == Logged(proc[p], "CreateFunction",
                            Example_RoleParameter(proc[p]), a.res) IN
            /\ fn' = Example_FnAfterCreate(proc[p], a)
            /\ nextId' = IF a.res \in {"ok", "incomplete"} THEN nextId + 1 ELSE nextId
            /\ faults' = FaultsAfter(a)
            /\ IF Resolved(a) /\ Truthy(a.val)
               THEN Continue(p, [Invoking(l, "createFunctionUrl")
                                   EXCEPT !.pc = "example_url_get"])
               ELSE Throw(p, Failing(l),
                          IF a.res = "incomplete"
                          THEN "Failed to create function - no ARN returned" ELSE a.res)
  /\ UNCHANGED <<role, url, perms, runs>>

\* updateFunctionCode: readZipFileBytes, UpdateFunctionCodeCommand
Example_UpdateFunctionCode(p) ==
  /\ proc[p].pc = "example_update_code"
  /\ IF ZipIsEmpty(proc[p].art)
     THEN /\ Throw(p, proc[p], "Zip file is empty")
          /\ UNCHANGED <<fn, faults>>
     ELSE \E a \in UpdateFunctionCodeAnswers :
            LET l == Logged(proc[p], "UpdateFunctionCode", FunctionNameValue, a.res) IN
            /\ fn' = FnAfterUpdate(proc[p], a)
            /\ faults' = FaultsAfter(a)
            /\ IF a.res = "ok"
               THEN Continue(p, [l EXCEPT !.pc = "example_update_get"])
               ELSE Throw(p, Failing(l), a.res)
  /\ UNCHANGED <<role, url, perms, nextId, runs>>

\* updateFunctionCode: GetFunctionCommand and the check of its FunctionArn
Example_UpdateFunctionCode_GetFunction(p) ==
  /\ proc[p].pc = "example_update_get"
  /\ \E a \in GetFunctionAnswers :
       LET l == Logged(proc[p], "GetFunction", FunctionNameValue, a.res) IN
       /\ faults' = FaultsAfter(a)
       /\ IF a.res /= "ok"
          THEN Throw(p, Failing(l), a.res)
          ELSE IF Truthy(a.val)
               THEN Continue(p, [Invoking(l, "createFunctionUrl")
                                   EXCEPT !.pc = "example_url_get"])
               ELSE Throw(p, l, "Failed to get function ARN after update")
  /\ UNCHANGED <<remote, runs>>

\* createFunctionUrl returns u; deploy returns its message with it
Example_UrlReturn(p, l, u) ==
  Return(p, [l EXCEPT !.functionUrl = u], DeployMessage(u))

\* createFunctionUrl: GetFunctionUrlConfigCommand in its try/catch
Example_CreateFunctionUrl_Get(p) ==
  /\ proc[p].pc = "example_url_get"
  /\ \E a \in GetFunctionUrlConfigAnswers :
       LET l == Logged(proc[p], "GetFunctionUrlConfig", FunctionNameValue, a.res) IN
       /\ faults' = FaultsAfter(a)
       /\ IF a.res = "ok"
          THEN IF Truthy(a.val)
               THEN Example_UrlReturn(p, l, a.val)
               ELSE Continue(p, [l EXCEPT !.pc = "example_url_create"])
          ELSE IF a.res = "ResourceNotFoundException"
               THEN Continue(p, [l EXCEPT !.pc = "example_url_create"])
               ELSE Throw(p, Failing(l), a.res)
  /\ UNCHANGED <<remote, runs>>

\* createFunctionUrl: CreateFunctionUrlConfigCommand and its check
Example_CreateFunctionUrl_Create(p) ==
  /\ proc[p].pc = "example_url_create"
  /\ \E a \in CreateFunctionUrlConfigAnswers :
       LET l == Logged(proc[p], "CreateFunctionUrlConfig", <<"NONE", 0>>, a.res) IN
       /\ url' = UrlAfterCreate(proc[p], a)
       /\ nextId' = IF a.res \in {"ok", "incomplete"} THEN nextId + 1 ELSE nextId
       /\ faults' = FaultsAfter(a)
       /\ IF Resolved(a) /\ Truthy(a.val)
          THEN Continue(p, [l EXCEPT !.createUrl = a.val,
                                     !.pc = "example_url_add_permission"])
          ELSE Throw(p, Failing(l),
                     IF a.res = "incomplete"
                     THEN "Failed to create function URL - no URL returned"
                     ELSE a.res)
  /\ UNCHANGED <<role, fn, perms, runs>>

\* createFunctionUrl: AddPermissionCommand in its try/catch
Example_CreateFunctionUrl_AddPermission(p) ==
  /\ proc[p].pc = "example_url_add_permission"
  /\ \E a \in AddPermissionAnswers :
       LET l == Logged(proc[p], "AddPermission", <<"NONE", 0>>, a.res) IN
       /\ perms' = IF a.res = "ok" THEN perms \cup {Statement("NONE")} ELSE perms
       /\ faults' = FaultsAfter(a)
       /\ IF a.res = "ok" \/ a.res = "ResourceConflictException"
          THEN Example_UrlReturn(p, l, proc[p].createUrl)
          ELSE Throw(p, Failing(l), a.res)
  /\ UNCHANGED <<role, fn, url, nextId, runs>>

ExampleNext ==
  \E p \in Procs :
    \/ Example_Deploy_Start(p)
    \/ Example_Deploy_RoleExists(p)
    \/ Example_CreateRole_RoleExists(p)
    \/ Example_CreateRole_GetRole(p)
    \/ Example_CreateRole_CreateRole(p)
    \/ Example_CreateRole_AttachRolePolicy(p)
    \/ Example_Deploy_FunctionExists(p)
    \/ Example_CreateFunction(p)
    \/ Example_UpdateFunctionCode(p)
    \/ Example_UpdateFunctionCode_GetFunction(p)
    \/ Example_CreateFunctionUrl_Get(p)
    \/ Example_CreateFunctionUrl_Create(p)
    \/ Example_CreateFunctionUrl_AddPermission(p)

ExampleSpec == Init /\ [][ExampleNext]_vars

\* ------------------------- LambdaExample of .dagger/src/index.ts and its deploy
\* the identity service knows the one role, under RoleNameValue; any other text
\* given as RoleName (an ARN holds ':' and '/', which no role name does) is
\* refused as invalid or answered as no such role
GetRoleAnswersFor(roleName, stale) ==
  IF roleName = RoleNameValue
  THEN GetRoleAnswers(stale)
  ELSE {[res |-> "ValidationError", val |-> Undefined],
        [res |-> "NoSuchEntityException", val |-> Undefined]}

CreateRoleAnswersFor(roleName) ==
  IF roleName = RoleNameValue
  THEN CreateRoleAnswers
  ELSE {[res |-> "ValidationError", val |-> Undefined]}

AttachRolePolicyAnswersFor(roleName) ==
  IF roleName = RoleNameValue
  THEN AttachRolePolicyAnswers
  ELSE {[res |-> "NoSuchEntityException", val |-> Undefined]}

\* the function service refuses an empty archive
Dagger_CreateFunctionAnswers(roleParameter, art) ==
  IF art = 0
  THEN {[res |-> "InvalidParameterValueException", val |-> Undefined]}
  ELSE CreateFunctionAnswers(roleParameter)

Dagger_UpdateFunctionCodeAnswers(art) ==
  IF art = 0 /\ fn.exists
  THEN {[res |-> "InvalidParameterValueException", val |-> Undefined]}
  ELSE UpdateFunctionCodeAnswers

\* whether the run is inside createFunction(functionName, role, zip)
InCreateFunction(l) == \E i \in DOMAIN l.invoked : l.invoked[i] = "createFunction"

\* the roleName that createRole is called with: this.roleName by deploy, and by
\* createFunction its own second parameter, for which deploy hands over `role`,
\* the value its createRole call returned
Dagger_CreateRoleArgument(l) == IF InCreateFunction(l) THEN l.roleArn ELSE RoleNameValue

Dagger_FnAfterCreate(l, a) ==
  IF a.res \in {"ok", "incomplete"}
  THEN [exists |-> TRUE, arn |-> FunctionArnOf(nextId), role |-> l.createdArn,
        code |-> l.art, handler |-> "index.handler", runtime |-> "nodejs20.x",
        architecture |-> "arm64", memorySize |-> 256, timeout |-> 10]
  ELSE fn

Dagger_Deploy_Start(p) ==
  /\ AtRest(p)
  /\ runs < MaxRuns
  /\ runs' = runs + 1
  /\ \E art \in 0..MaxArtLen :
       Begin(p, [Invoking(Start("dagger.deploy"), "createRole")
                   EXCEPT !.pc = "dagger_role_get", !.art = art,
                          !.runtime = "nodejs20.x", !.architecture = "arm64",
                          !.authType = "NONE", !.cors = DefaultCors])
  /\ UNCHANGED <<remote, faults>>

\* createRole: GetRoleCommand in its try/catch
Dagger_CreateRole_GetRole(p) ==
  /\ proc[p].pc = "dagger_role_get"
  /\ LET roleName == Dagger_CreateRoleArgument(proc[p]) IN
     \E a \in GetRoleAnswersFor(roleName, TRUE) :
       LET l == Logged(proc[p], "GetRole", roleName, a.res) IN
       /\ role' = RoleAfterGet(a)
       /\ faults' = FaultsAfter(a)
       /\ IF a.res = "ok" /\ Truthy(a.val)
          THEN Continue(p, [l EXCEPT !.createdArn = a.val, !.pc = "dagger_role_returned"])
          ELSE IF a.res \in {"ok", "NoSuchEntityException"}
               THEN Continue(p, [l EXCEPT !.pc = "dagger_role_create"])
               ELSE Throw(p, Failing(l), a.res)
  /\ UNCHANGED <<fn, url, perms, nextId, runs>>

\* createRole: CreateRoleCommand and the check of its response
Dagger_CreateRole_CreateRole(p) ==
  /\ proc[p].pc = "dagger_role_create"
  /\ LET roleName == Dagger_CreateRoleArgument(proc[p]) IN
     \E a \in CreateRoleAnswersFor(roleName) :
       LET l == Logged(proc[p], "CreateRole", roleName, a.res) IN
       /\ role' = RoleAfterCreate(a)
       /\ nextId' = IF a.res \in {"ok", "incomplete"} THEN nextId + 1 ELSE nextId
       /\ faults' = FaultsAfter(a)
       /\ IF Resolved(a) /\ Truthy(a.val)
          THEN Continue(p, [l EXCEPT !.createdArn = a.val, !.pc = "dagger_role_attach"])
          ELSE Throw(p, Failing(l),
                     IF a.res = "incomplete"
                     THEN "Failed to create role - no ARN returned" ELSE a.res)
  /\ UNCHANGED <<fn, url, perms, runs>>

\* createRole: AttachRolePolicyCommand, then the created ARN returned
Dagger_CreateRole_AttachRolePolicy(p) ==
  /\ proc[p].pc = "dagger_role_attach"
  /\ LET roleName == Dagger_CreateRoleArgument(proc[p]) IN
     \E a \in AttachRolePolicyAnswersFor(roleName) :
       LET l == Logged(proc[p], "AttachRolePolicy", roleName, a.res) IN
       /\ role' = RoleAfterAttach(a)
       /\ faults' = FaultsAfter(a)
       /\ IF a.res = "ok"
          THEN Continue(p, [l EXCEPT !.pc = "dagger_role_returned"])
          ELSE Throw(p, Failing(l), a.res)
  /\ UNCHANGED <<fn, url, perms, nextId, runs>>

\* createRole has returned an ARN. To deploy: `role` is that ARN and
\* createFunction(this.functionName, role, zip) begins. To createFunction: the ARN is
\* the Role of the CreateFunctionCommand, which is sent and its response checked
Dagger_CreateRole_Returned(p) ==
  /\ proc[p].pc = "dagger_role_returned"
  /\ IF ~InCreateFunction(proc[p])
     THEN /\ Continue(p, [Invoking(proc[p], "createFunction")
                            EXCEPT !.roleArn = proc[p].createdArn,
                                   !.pc = "dagger_function_get"])
          /\ UNCHANGED <<fn, nextId, faults>>
     ELSE \E a \in Dagger_CreateFunctionAnswers(proc[p].createdArn, proc[p].art) :
            LET l == Logged(proc[p], "CreateFunction", proc[p].createdArn, a.res) IN
            /\ fn' = Dagger_FnAfterCreate(proc[p], a)
            /\ nextId' = IF a.res \in {"ok", "incomplete"} THEN nextId + 1 ELSE nextId
            /\ faults' = FaultsAfter(a)
            /\ IF Resolved(a) /\ Truthy(a.val)
               THEN Continue(p, [Invoking(l, "createFunction.createFunctionUrl")
                                   EXCEPT !.functionArn = a.val, !.pc = "dagger_url_get"])
               ELSE Throw(p, Failing(l),
                          IF a.res = "incomplete"
                          THEN "Failed to create function - no ARN returned" ELSE a.res)
  /\ UNCHANGED <<role, url, perms, runs>>

\* createFunction leaves its try block through the catch of
\* ResourceNotFoundException and goes on to create: `Role: await this.createRole(roleName)`
Dagger_ToCreate(p, l) ==
  Continue(p, [Invoking(l, "createRole") EXCEPT !.pc = "dagger_role_get"])

\* createFunction: GetFunctionCommand in the try block
Dagger_CreateFunction_GetFunction(p) ==
  /\ proc[p].pc = "dagger_function_get"
  /\ \E a \in GetFunctionAnswers :
       LET l == Logged(proc[p], "GetFunction", FunctionNameValue, a.res) IN
       /\ faults' = FaultsAfter(a)
       /\ IF a.res = "ok" /\ Truthy(a.val)
          THEN Continue(p, [l EXCEPT !.functionArn = a.val, !.pc = "dagger_update_code"])
          ELSE IF a.res \in {"ok", "ResourceNotFoundException"}
               THEN Dagger_ToCreate(p, l)
               ELSE Throw(p, Failing(l), a.res)
  /\ UNCHANGED <<remote, runs>>

\* createFunction: UpdateFunctionCodeCommand in the try block
Dagger_CreateFunction_UpdateFunctionCode(p) ==
  /\ proc[p].pc = "dagger_update_code"
  /\ \E a \in Dagger_UpdateFunctionCodeAnswers(proc[p].art) :
       LET l == Logged(proc[p], "UpdateFunctionCode", FunctionNameValue, a.res) IN
       /\ fn' = FnAfterUpdate(proc[p], a)
       /\ faults' = FaultsAfter(a)
       /\ IF a.res = "ok"
          THEN Continue(p, [Invoking(l, "createFunction.createFunctionUrl")
                              EXCEPT !.pc = "dagger_url_get"])
          ELSE IF a.res = "ResourceNotFoundException"
               THEN Dagger_ToCreate(p, l)
               ELSE Throw(p, Failing(l), a.res)
  /\ UNCHANGED <<role, url, perms, nextId, runs>>

\* whether the createFunctionUrl under way is the one createFunction calls
Dagger_UrlForFunction(l) ==
  Len(l.invoked) > 0 /\ l.invoked[Len(l.invoked)] = "createFunction.createFunctionUrl"

\* the functionName that createFunctionUrl is called with: the name by
\* createFunction, `fn` by deploy, which is the ARN that createFunction returned
Dagger_UrlArgument(l) ==
  IF Dagger_UrlForFunction(l) THEN FunctionNameValue ELSE l.functionArn

\* createFunctionUrl returns u. To createFunction, which returns the function's ARN
\* to deploy, and deploy calls createFunctionUrl(fn); to deploy, which goes on to
\* `yarn deploy`
Dagger_UrlReturn(p, l, u) ==
  IF Dagger_UrlForFunction(l)
  THEN Continue(p, [Invoking(l, "createFunctionUrl") EXCEPT !.pc = "dagger_url_get"])
  ELSE Continue(p, [l EXCEPT !.functionUrl = u, !.pc = "dagger_yarn_deploy"])

\* createFunctionUrl throws the error named e. Called in the try block of
\* createFunction (the function was found and updated), ResourceNotFoundException is caught
Dagger_UrlThrow(p, l, e) ==
  IF /\ Dagger_UrlForFunction(l)
     /\ ~\E i \in DOMAIN l.calls : l.calls[i].call = "CreateFunction"
     /\ e = "ResourceNotFoundException"
  THEN Dagger_ToCreate(p, l)
  ELSE Throw(p, Failing(l), e)

\* createFunctionUrl: GetFunctionUrlConfigCommand in its try/catch
Dagger_CreateFunctionUrl_Get(p) ==
  /\ proc[p].pc = "dagger_url_get"
  /\ \E a \in GetFunctionUrlConfigAnswers :
       LET l == Logged(proc[p], "GetFunctionUrlConfig",
                       Dagger_UrlArgument(proc[p]), a.res) IN
       /\ faults' = FaultsAfter(a)
       /\ IF a.res = "ok" /\ Truthy(a.val)
          THEN Dagger_UrlReturn(p, l, a.val)
          ELSE IF a.res \in {"ok", "ResourceNotFoundException"}
               THEN Continue(p, [l EXCEPT !.pc = "dagger_url_create"])
               ELSE Dagger_UrlThrow(p, l, a.res)
  /\ UNCHANGED <<remote, runs>>

\* createFunctionUrl: CreateFunctionUrlConfigCommand and its check
Dagger_CreateFunctionUrl_Create(p) ==
  /\ proc[p].pc = "dagger_url_create"
  /\ \E a \in CreateFunctionUrlConfigAnswers :
       LET l == Logged(proc[p], "CreateFunctionUrlConfig", <<"NONE", 0>>, a.res) IN
       /\ url' = UrlAfterCreate(proc[p], a)
       /\ nextId' = IF a.res \in {"ok", "incomplete"} THEN nextId + 1 ELSE nextId
       /\ faults' = FaultsAfter(a)
       /\ IF Resolved(a) /\ Truthy(a.val)
          THEN Continue(p, [l EXCEPT !.createUrl = a.val,
                                     !.pc = "dagger_url_add_permission"])
          ELSE Dagger_UrlThrow(p, l,
                               IF a.res = "incomplete"
                               THEN "Failed to create function URL - no URL returned"
                               ELSE a.res)
  /\ UNCHANGED <<role, fn, perms, runs>>

\* createFunctionUrl: AddPermissionCommand in its try/catch
Dagger_CreateFunctionUrl_AddPermission(p) ==
  /\ proc[p].pc = "dagger_url_add_permission"
  /\ \E a \in AddPermissionAnswers :
       LET l == Logged(proc[p], "AddPermission", <<"NONE", 0>>, a.res) IN
       /\ perms' = IF a.res = "ok" THEN perms \cup {Statement("NONE")} ELSE perms
       /\ faults' = FaultsAfter(a)
       /\ IF a.res = "ok" \/ a.res = "ResourceConflictException"
          THEN Dagger_UrlReturn(p, l, proc[p].createUrl)
          ELSE Dagger_UrlThrow(p, l, a.res)
  /\ UNCHANGED <<role, fn, url, nextId, runs>>

\* scripts/deploy.sh, run by `yarn deploy`: each of role, function and URL made
\* when the account lacks it, the archive uploaded to a function already there,
\* the 'public-url' statement added when it is missing
Script_Role ==
  IF role.exists
  THEN [role EXCEPT !.propagated = TRUE]
  ELSE [exists |-> TRUE, arn |-> RoleArnOf(nextId), attached |-> TRUE, propagated |-> TRUE]

Script_Fn(art) ==
  IF fn.exists
  THEN [fn EXCEPT !.code = art]
  ELSE [exists |-> TRUE, arn |-> FunctionArnOf(nextId), role |-> Script_Role.arn,
        code |-> art, handler |-> "index.handler", runtime |-> "nodejs20.x",
        architecture |-> "arm64", memorySize |-> 256, timeout |-> 10]

Script_Url ==
  IF url.exists
  THEN url
  ELSE [exists |-> TRUE, url |-> FunctionUrlOf(nextId), authType |-> "NONE",
        cors |-> DefaultCors]

\* return this.base().withExec(["yarn", "deploy"]).stdout(): the script runs to its
\* end, or a command of it fails (the build, at the least) and the step throws
Dagger_Deploy_YarnDeploy(p) ==
  /\ proc[p].pc = "dagger_yarn_deploy"
  /\ \/ /\ ~ZipIsEmpty(proc[p].art)
        /\ role' = Script_Role
        /\ fn' = Script_Fn(proc[p].art)
        /\ url' = Script_Url
        /\ perms' = perms \cup {Statement("NONE")}
        /\ nextId' = IF role.exists /\ fn.exists /\ url.exists THEN nextId ELSE nextId + 1
        /\ faults' = faults
        /\ Return(p, Invoking(proc[p], "yarn deploy"),
                  [text |-> "Deployed! URL: ", value |-> Script_Url.url])
     \/ /\ CanFault \/ ZipIsEmpty(proc[p].art)
        /\ faults' = IF ZipIsEmpty(proc[p].art) THEN faults ELSE faults + 1
        /\ Throw(p, Failing(Invoking(proc[p], "yarn deploy")), "ExecError")
        /\ UNCHANGED remote
  /\ UNCHANGED runs

DaggerNext ==
  \E p \in Procs :
    \/ Dagger_Deploy_Start(p)
    \/ Dagger_CreateRole_GetRole(p)
    \/ Dagger_CreateRole_CreateRole(p)
    \/ Dagger_CreateRole_AttachRolePolicy(p)
    \/ Dagger_CreateRole_Returned(p)
    \/ Dagger_CreateFunction_GetFunction(p)
    \/ Dagger_CreateFunction_UpdateFunctionCode(p)
    \/ Dagger_CreateFunctionUrl_Get(p)
    \/ Dagger_CreateFunctionUrl_Create(p)
    \/ Dagger_CreateFunctionUrl_AddPermission(p)
    \/ Dagger_Deploy_YarnDeploy(p)

DaggerSpec == Init /\ [][DaggerNext]_vars

\* ------------------------------------- the deployed function's HTTP handler
\* the properties of the event that the handler reads, each present or missing
RawPaths   == {Undefined, EmptyString, Str("/"), Str("/api/info"), Str("/does-not-exist")}
Methods    == {Undefined, EmptyString, Str("GET"), Str("POST")}
RequestIds == {Undefined, Str("request-1"), Str("request-2")}
SourceIps  == {Undefined, Str("192.168.1.1")}
UserAgents == {Undefined, Str("Mozilla/5.0")}

\* an event without requestContext has none of its properties, one without
\* requestContext.http none of http's
Events ==
  {e \in [rawPath : RawPaths, hasContext : BOOLEAN, requestId : RequestIds,
          hasHttp : BOOLEAN, method : Methods, sourceIp : SourceIps,
          userAgent : UserAgents] :
     /\ ~e.hasContext => e.requestId = Undefined /\ ~e.hasHttp
     /\ ~e.hasHttp => e.method = Undefined /\ e.sourceIp = Undefined
                      /\ e.userAgent = Undefined}

\* the text of the page, word by word; markup attributes and the script left out
html ==
  <<"<!doctype", "html>", "<html>", "<head>", "<title>", "TS", "Lambda", "Site",
    "</title>", "</head>", "<body>", "<h1>", "Hello", "from", "AWS", "Lambda",
    "(waving hand)", "</h1>", "<p>", "This", "page", "is", "served", "by", "a",
    "Lambda", "Function", "URL", ".", "Click", "the", "button", "to", "call",
    "the", "API", ".", "</p>", "<button>", "Call", "API", "</button>",
    "</body>", "</html>">>

\* variant: only the content type set
Headers_ContentTypeOnly(contentType) == "content-type" :> contentType

\* the headers resp gives every response
Headers(contentType) ==
  ("content-type" :> contentType) @@ ("cache-control" :> "no-store")
    @@ ("access-control-allow-origin" :> "*")

resp(statusCode, body, contentType) ==
  [statusCode |-> statusCode, headers |-> Headers(contentType), body |-> body]

\* JSON.stringify of an object, given as its members in order: a member whose
\* value is undefined is left out of the text
Stringify(object) == SelectSeq(object, LAMBDA m : m[2] /= Undefined)

\* JSON.parse(body)[key]: undefined when the text has no such member
Member(body, key) ==
  IF \E k \in DOMAIN body : body[k][1] = key
    THEN body[CHOOSE k \in DOMAIN body : body[k][1] = key][2]
    ELSE Undefined

\* event.requestContext?.requestId
ContextRequestId(event) == IF event.hasContext THEN event.requestId ELSE Undefined

\* event.requestContext?.http?.<property>
ContextHttp(event, property) ==
  IF event.hasContext /\ event.hasHttp THEN event[property] ELSE Undefined

\* `event.rawPath || "/"`
rawPath(event) == IF Truthy(event.rawPath) THEN event.rawPath ELSE Str("/")

\* variant: the method read without a default
method_NoDefault(event) == ContextHttp(event, "method")

\* `event.requestContext?.http?.method || "GET"`
method(event) ==
  IF Truthy(ContextHttp(event, "method")) THEN ContextHttp(event, "method")
                                           ELSE Str("GET")

\* new Date().toISOString()
ToISOString(t) == <<"ISO-8601", t>>

\* variant: no request identifier put in the object
info_NoRequestId(event, now) ==
  << <<"message", Str("Hello from /api/info")>>, <<"now", now>>,
     <<"ip", ContextHttp(event, "sourceIp")>>,
     <<"userAgent", ContextHttp(event, "userAgent")>> >>

info(event, now) ==
  << <<"message", Str("Hello from /api/info")>>, <<"now", now>>,
     <<"requestId", ContextRequestId(event)>>,
     <<"ip", ContextHttp(event, "sourceIp")>>,
     <<"userAgent", ContextHttp(event, "userAgent")>> >>

\* variant: the path the event came with, undefaulted
NotFound_EventPath(event) ==
  << <<"error", Str("Not Found")>>, <<"path", event.rawPath>> >>

\* `{ error: "Not Found", path: rawPath }`
NotFound(event) == << <<"error", Str("Not Found")>>, <<"path", rawPath(event)>> >>

IsRoot(event) ==
  method(event) = Str("GET")
    /\ (rawPath(event) = Str("/") \/ rawPath(event) = EmptyString)

IsInfo(event) == method(event) = Str("GET") /\ rawPath(event) = Str("/api/info")

handler(event, now) ==
  IF IsRoot(event)
    THEN resp(200, html, "text/html; charset=utf-8")
    ELSE IF IsInfo(event)
      THEN resp(200, Stringify(info(event, now)), "application/json; charset=utf-8")
      ELSE resp(404, Stringify(NotFound(event)), "application/json; charset=utf-8")

\* variant: one event kept for all invocations
EventOf_First(i) == inv[CHOOSE j \in Invocations : TRUE].event

\* the argument an invocation was called with
EventOf(i) == inv[i].event

\* the platform calls handler(event)
Handler_Invoke(i) ==
  /\ inv[i].pc = "idle"
  /\ \E e \in Events :
       inv' = [inv EXCEPT ![i] = [@ EXCEPT !.pc = "running", !.started = clock,
                                           !.event = e]]
  /\ UNCHANGED <<clock, provisioning>>

\* the promise of an invocation resolves with the response
Handler_Return(i) ==
  /\ inv[i].pc = "running"
  /\ inv' = [inv EXCEPT ![i] = [@ EXCEPT !.pc = "returned",
                                          !.response = handler(EventOf(i), ToISOString(clock))]]
  /\ clock' = clock + 1
  /\ UNCHANGED provisioning

\* the account as a successful deploy leaves it
HandlerInit ==
  /\ role = [exists |-> TRUE, arn |-> RoleArnOf(0), attached |-> TRUE, propagated |-> TRUE]
  /\ fn \in InitFns /\ fn.exists
  /\ url = [exists |-> TRUE, url |-> FunctionUrlOf(0), authType |-> "NONE",
            cors |-> DefaultCors]
  /\ perms = {Statement("NONE")}
  /\ nextId = 1
  /\ proc = [p \in Procs |-> Idle]
  /\ prev = [p \in Procs |-> Idle]
  /\ runs = 0
  /\ faults = 0
  /\ inv = [i \in Invocations |-> NoInvocation]
  /\ clock = 0

HandlerNext ==
  \E i \in Invocations :
    \/ Handler_Invoke(i)
    \/ Handler_Return(i)

HandlerSpec == HandlerInit /\ [][HandlerNext]_vars

\* ======================================================================
\* Properties
\* ======================================================================
\* the runs in progress or just ended, and the runs before them
Runs == {proc[p] : p \in Procs} \cup {prev[p] : p \in Procs}

Ended(l) == l.pc \in {"returned", "raised"}

Count(calls, c) == Cardinality({i \in DOMAIN calls : calls[i].call = c})

Issued(l, c) == Count(l.calls, c) > 0

\* position of the first call c in the log (0 when there is none)
First(calls, c) ==
  IF \E i \in DOMAIN calls : calls[i].call = c
  THEN CHOOSE i \in DOMAIN calls :
         calls[i].call = c /\ \A j \in DOMAIN calls : calls[j].call = c => i <= j
  ELSE 0

\* no remote call and no pipeline step of the run failed for an outside reason
NoOutsideFailure(l) ==
  /\ l.error \notin {"TestsFailed", "Cancelled"}
  /\ \A i \in DOMAIN l.calls : l.calls[i].res \notin {"ServiceError", "incomplete"}

FullyProvisioned == role.exists /\ fn.exists /\ url.exists

\* a deploy run that has returned or thrown; the remote state is the one it left
EndedDeploy(l) == l.op = "deploy" /\ Ended(l)

\* C1 as stated: from any combination of role, function and URL configuration,
\* a deploy run in which no remote call fails (neither a service call nor the
\* test step run in the build engine) ends with all three existing.
C1_AsStated ==
  \A p \in Procs :
    (EndedDeploy(proc[p]) /\ ~proc[p].failed /\ proc[p].error /= "TestsFailed")
    => FullyProvisioned

\* C1 (amended): from any combination of role, function and URL configuration,
\* a deploy run with a non-empty artifact in which no remote call fails returns
\* its message and ends with the role, the function and the URL configuration
\* all existing.
C1_DeployConverges ==
  \A p \in Procs :
    (/\ EndedDeploy(proc[p]) /\ ~proc[p].failed /\ proc[p].error /= "TestsFailed"
     /\ proc[p].art > 0)
    => (proc[p].pc = "returned" /\ FullyProvisioned)

C1_Witness ==
  \E p \in Procs :
    /\ EndedDeploy(proc[p]) /\ proc[p].pc = "returned" /\ ~proc[p].failed
    /\ proc[p].art > 0
    /\ ~proc[p].pre.role.exists /\ ~proc[p].pre.fn.exists /\ ~proc[p].pre.url.exists
    /\ FullyProvisioned

\* C2: after a deploy run that returned its success message, the URL
\* configuration exists only together with the "public-url" permission.
C2_PermissionFollowsUrl ==
  \A p \in Procs :
    (EndedDeploy(proc[p]) /\ proc[p].pc = "returned" /\ url.exists)
    => HasStatement(StatementId)

\* C3: the propagation poll of AwsIam.create calls exists at most 5 times.
C3_PollBounded == \A l \in Runs : l.polls <= maxAttempts

\* the run has finished deploy's role-ensure step (iam.exists, and iam.create
\* when the role was reported absent) and holds its result in roleArn
EnsuredRole(l) ==
  /\ l.op = "deploy"
  /\ l.pc = "deploy_lambda_exists" \/ Issued(l, "GetFunction")

\* C4: the role-ensure step of deploy run twice in sequence, with nothing else
\* touching the account in between and no outside failure in the second run:
\* CreateRole is issued exactly once in total when the role was absent before
\* the first run (and never otherwise), never in the second run, and the second
\* run yields the ARN the first one yielded, the ARN of the one role there is.
C4_RoleEnsureIdempotent ==
  \A p \in Procs :
    (EnsuredRole(prev[p]) /\ proc[p].op = "deploy" /\ NoOutsideFailure(proc[p]))
    => /\ Count(prev[p].calls, "CreateRole") + Count(proc[p].calls, "CreateRole")
            = (IF prev[p].pre.role.exists THEN 0 ELSE 1)
       /\ Count(proc[p].calls, "CreateRole") = 0
       /\ role.exists /\ role.arn = prev[p].roleArn
       /\ EnsuredRole(proc[p]) => proc[p].roleArn = prev[p].roleArn

C4_Witness ==
  \E p \in Procs :
    /\ EnsuredRole(prev[p]) /\ EnsuredRole(proc[p])
    /\ ~prev[p].pre.role.exists
    /\ Count(prev[p].calls, "CreateRole") = 1
    /\ proc[p].roleArn = prev[p].roleArn

\* a createFunctionUrl call made directly that has returned or thrown
EndedUrlCall(l) == l.op = "createFunctionUrl" /\ Ended(l)

\* C5: createFunctionUrl called twice in sequence for the same existing
\* function, with no outside failure, returns the same URL both times, issues
\* at most one CreateFunctionUrlConfig and at most one AddPermission in total,
\* and the second call throws nothing.
C5_CreateFunctionUrlIdempotent ==
  \A p \in Procs :
    (/\ EndedUrlCall(prev[p]) /\ EndedUrlCall(proc[p])
     /\ NoOutsideFailure(prev[p]) /\ NoOutsideFailure(proc[p])
     /\ prev[p].pre.fn.exists)
    => /\ prev[p].pc = "returned" /\ proc[p].pc = "returned"
       /\ Truthy(proc[p].ret.value)
       /\ proc[p].ret.value = prev[p].ret.value
       /\ Count(prev[p].calls, "CreateFunctionUrlConfig")
            + Count(proc[p].calls, "CreateFunctionUrlConfig") <= 1
       /\ Count(prev[p].calls, "AddPermission")
            + Count(proc[p].calls, "AddPermission") <= 1

C5_Witness ==
  \E p \in Procs :
    /\ EndedUrlCall(prev[p]) /\ EndedUrlCall(proc[p])
    /\ prev[p].pre.fn.exists /\ ~prev[p].pre.url.exists
    /\ Issued(prev[p], "CreateFunctionUrlConfig") /\ Issued(prev[p], "AddPermission")
    /\ proc[p].pc = "returned"
    /\ proc[p].ret.value = prev[p].ret.value

\* lambda.exists has returned its boolean in the run (it did not throw)
ExistsReturned(l) ==
  \E i \in DOMAIN l.calls :
    l.calls[i].call = "GetFunction"
    /\ l.calls[i].res \in {"ok", "ResourceNotFoundException"}

\* ... and what it returned
ExistsSaid(l) == ExistsReturned(l) /\ l.calls[First(l.calls, "GetFunction")].res = "ok"

Invoked(l, m) == Cardinality({i \in DOMAIN l.invoked : l.invoked[i] = m})

\* C6: a deploy run calls exactly one of create and updateCode once its
\* existence check has returned: create (not updateCode) when the check said
\* false, updateCode (not create) when it said true; before that, neither.
C6_CreateOrUpdate ==
  \A l \in Runs :
    l.op = "deploy"
    => IF ExistsReturned(l)
       THEN /\ Invoked(l, "lambda.create") + Invoked(l, "lambda.updateCode") = 1
            /\ Invoked(l, "lambda.create") = 1 <=> ~ExistsSaid(l)
            /\ Issued(l, "CreateFunction") => ~ExistsSaid(l)
            /\ Issued(l, "UpdateFunctionCode") => ExistsSaid(l)
       ELSE /\ Invoked(l, "lambda.create") + Invoked(l, "lambda.updateCode") = 0
            /\ ~Issued(l, "CreateFunction") /\ ~Issued(l, "UpdateFunctionCode")

C6_Witness ==
  \E p \in Procs :
    /\ EndedDeploy(proc[p]) /\ EndedDeploy(prev[p])
    /\ ExistsReturned(prev[p]) /\ ~ExistsSaid(prev[p]) /\ Issued(prev[p], "CreateFunction")
    /\ ExistsSaid(proc[p]) /\ Issued(proc[p], "UpdateFunctionCode")

CreateOrUpdateCalls == {"CreateRole", "AttachRolePolicy", "CreateFunction",
                        "UpdateFunctionCode", "CreateFunctionUrlConfig", "AddPermission"}

FunctionServiceWrites == {"CreateFunction", "UpdateFunctionCode",
                          "CreateFunctionUrlConfig", "AddPermission"}

\* C7 as stated: with a zero-byte artifact deploy fails before any of CreateRole,
\* AttachRolePolicy, CreateFunction, UpdateFunctionCode, CreateFunctionUrlConfig
\* and AddPermission is attempted, from every starting state.
C7_AsStated ==
  \A l \in Runs :
    (l.op = "deploy" /\ l.art = 0)
    => /\ \A i \in DOMAIN l.calls : l.calls[i].call \notin CreateOrUpdateCalls
       /\ Ended(l) => l.pc = "raised"

\* C7 (amended): with a zero-byte artifact deploy fails before any create or
\* update call of the function service (CreateFunction, UpdateFunctionCode,
\* CreateFunctionUrlConfig, AddPermission) is attempted, from every starting
\* state; the function, its URL configuration and its permissions are left as
\* they were. (CreateRole and AttachRolePolicy come before the archive is read.)
C7_EmptyArtifactFailsFast ==
  \A p \in Procs :
    (proc[p].op = "deploy" /\ proc[p].art = 0)
    => /\ \A i \in DOMAIN proc[p].calls : proc[p].calls[i].call \notin FunctionServiceWrites
       /\ Ended(proc[p]) => proc[p].pc = "raised"
       /\ fn = proc[p].pre.fn /\ url = proc[p].pre.url /\ perms = proc[p].pre.perms

C7_Witness ==
  \E p \in Procs :
    /\ EndedDeploy(proc[p]) /\ proc[p].art = 0
    /\ proc[p].error = "Zip file is empty"
    /\ Issued(proc[p], "CreateRole") /\ Issued(proc[p], "AttachRolePolicy")

\* C8: AwsLambda.create called with a runtime or an architecture outside the
\* platform's sets throws before any remote call and leaves the account as it was.
C8_BadEnumFailsFast ==
  \A p \in Procs :
    (/\ proc[p].op = "create"
     /\ proc[p].runtime \notin RuntimeValues \/ proc[p].architecture \notin ArchitectureValues)
    => /\ proc[p].calls = <<>>
       /\ Snapshot = proc[p].pre
       /\ Ended(proc[p]) => proc[p].pc = "raised"

C8_Witness ==
  \E p \in Procs :
    /\ proc[p].op = "create" /\ proc[p].pc = "raised"
    /\ proc[p].runtime = "not-a-real-runtime"
    /\ proc[p].error = "Unsupported runtime"
    /\ ~proc[p].pre.fn.exists /\ proc[p].pre.role.exists /\ proc[p].art > 0

\* role, function and URL configuration all present (and visible) before the run
AllPresentBefore(l) ==
  /\ l.pre.role.exists /\ l.pre.role.propagated
  /\ l.pre.fn.exists /\ l.pre.url.exists

\* C9: given role, function and URL configuration all present and no outside
\* failure, destroy deletes the function first, then the role (the function is
\* gone whenever the role delete is issued), then checks the URL configuration;
\* when the function's deletion took its URL configuration with it, that check
\* says absent and no URL delete is issued; no function and no role are left.
C9_DestroyOrder ==
  \A p \in Procs :
    /\ proc[p].pc = "destroy_iam_remove" => ~fn.exists
    /\ (/\ proc[p].op = "destroy" /\ Ended(proc[p])
        /\ NoOutsideFailure(proc[p]) /\ AllPresentBefore(proc[p]))
       => LET c == proc[p].calls
              f == First(c, "DeleteFunction")
              r == First(c, "DeleteRole")
              u == First(c, "GetFunctionUrlConfig") IN
          /\ proc[p].pc = "returned" /\ proc[p].ret = DestroyMessage
          /\ 0 < f /\ f < r /\ r < u
          /\ c[f].res = "ok" /\ c[r].res = "ok"
          /\ Count(c, "DeleteFunction") = 1 /\ Count(c, "DeleteRole") = 1
          /\ proc[p].cascaded => /\ c[u].res = "ResourceNotFoundException"
                                 /\ ~Issued(proc[p], "DeleteFunctionUrlConfig")
          /\ ~fn.exists /\ ~role.exists

C9_Witness ==
  \E p \in Procs :
    /\ proc[p].op = "destroy" /\ proc[p].pc = "returned"
    /\ AllPresentBefore(proc[p]) /\ proc[p].cascaded
    /\ Len(proc[p].calls) = 5
    /\ ~fn.exists /\ ~role.exists /\ ~url.exists

\* nothing of the deployment exists before the run
FreshBefore(l) ==
  /\ ~l.pre.role.exists /\ ~l.pre.fn.exists /\ ~l.pre.url.exists /\ l.pre.perms = {}

\* C10: on a fresh account a deploy with a non-empty artifact and no outside
\* failure issues exactly one CreateRole, one CreateFunction whose Role is the
\* ARN CreateRole returned, one CreateFunctionUrlConfig and one AddPermission,
\* and returns the message holding the URL that was created.
C10_FreshDeploy ==
  \A p \in Procs :
    (/\ EndedDeploy(proc[p]) /\ FreshBefore(proc[p])
     /\ proc[p].art > 0 /\ NoOutsideFailure(proc[p]))
    => LET c == proc[p].calls IN
       /\ proc[p].pc = "returned"
       /\ Count(c, "CreateRole") = 1 /\ Count(c, "AttachRolePolicy") = 1
       /\ Count(c, "CreateFunction") = 1 /\ Count(c, "UpdateFunctionCode") = 0
       /\ Count(c, "CreateFunctionUrlConfig") = 1 /\ Count(c, "AddPermission") = 1
       /\ c[First(c, "CreateRole")].res = "ok"
       /\ Truthy(proc[p].createdArn) /\ proc[p].createdArn = role.arn
       /\ c[First(c, "CreateFunction")].arg = proc[p].createdArn
       /\ fn.exists /\ fn.role = role.arn
       /\ url.exists /\ Truthy(url.url) /\ url.url /= proc[p].pre.url.url
       /\ proc[p].ret = [text |-> "Lambda deployed on url ", value |-> url.url]
       /\ HasStatement(StatementId)

C10_Witness ==
  \E p \in Procs :
    /\ EndedDeploy(proc[p]) /\ FreshBefore(proc[p]) /\ proc[p].pc = "returned"
    /\ proc[p].art > 0 /\ NoOutsideFailure(proc[p])
    /\ Len(proc[p].calls) >= 7
    /\ proc[p].ret.value = url.url /\ Truthy(url.url)

\* a deploy run that returned its message with nothing having failed in it
SuccessfulDeploy(l) ==
  /\ EndedDeploy(l) /\ l.pc = "returned"
  /\ NoOutsideFailure(l) /\ ~l.failed /\ l.caught = ""

CreationCalls == {"CreateRole", "AttachRolePolicy", "CreateFunction",
                  "CreateFunctionUrlConfig", "AddPermission"}

\* C11: a second deploy (non-empty artifact, no outside failure) on the account
\* a successful first deploy left issues no CreateRole, AttachRolePolicy,
\* CreateFunction, CreateFunctionUrlConfig or AddPermission, issues exactly one
\* UpdateFunctionCode, and returns the URL the first run returned.
C11_Redeploy ==
  \A p \in Procs :
    (/\ SuccessfulDeploy(prev[p])
     /\ proc[p].op = "deploy" /\ proc[p].art > 0 /\ NoOutsideFailure(proc[p]))
    => /\ \A i \in DOMAIN proc[p].calls : proc[p].calls[i].call \notin CreationCalls
       /\ Count(proc[p].calls, "UpdateFunctionCode") <= 1
       /\ Ended(proc[p])
          => /\ proc[p].pc = "returned"
             /\ Count(proc[p].calls, "UpdateFunctionCode") = 1
             /\ Truthy(proc[p].ret.value)
             /\ proc[p].ret = prev[p].ret

C11_Witness ==
  \E p \in Procs :
    /\ SuccessfulDeploy(prev[p]) /\ FreshBefore(prev[p])
    /\ EndedDeploy(proc[p]) /\ proc[p].pc = "returned" /\ proc[p].art > 0
    /\ Count(proc[p].calls, "UpdateFunctionCode") = 1
    /\ proc[p].ret = prev[p].ret /\ proc[p].ret.value = url.url

ReconcilerErrors == {"ServiceError", "incomplete"}

\* C12: the first failure of a reconciler call in deploy aborts the run: deploy
\* raises that error, issues no further remote call and returns no message.
C12_FailureAborts ==
  \A p \in Procs :
    (proc[p].op = "deploy" /\ proc[p].failed)
    => /\ proc[p].calls[Len(proc[p].calls)].res \in ReconcilerErrors
       /\ Ended(proc[p])
       /\ proc[p].pc = "raised" /\ proc[p].ret = NoRet

\* C13: whenever deploy returns its message, the message holds a non-empty URL,
\* the URL of the function's URL configuration as it is then.
C13_MessageHoldsUrl ==
  \A p \in Procs :
    (EndedDeploy(proc[p]) /\ proc[p].pc = "returned")
    => /\ proc[p].ret.text = "Lambda deployed on url "
       /\ Truthy(proc[p].ret.value)
       /\ url.exists /\ proc[p].ret.value = url.url

\* C14: within one deploy run CreateFunction is issued only once the role exists
\* and its ARN was returned by exists or by CreateRole; CreateFunctionUrlConfig
\* only after a successful create or updateCode of this run, the function
\* existing; AddPermission only straight after a successful
\* CreateFunctionUrlConfig of the same createFunctionUrl call.
C14_DeployOrder ==
  \A p \in Procs :
    proc[p].op = "deploy"
    => LET c == proc[p].calls IN
       /\ \A i \in DOMAIN c :
            /\ c[i].call = "CreateFunction"
               => /\ Truthy(c[i].arg)
                  /\ \E j \in 1..(i - 1) : c[j].call \in {"GetRole", "CreateRole"}
                                           /\ c[j].res = "ok"
            /\ c[i].call = "CreateFunctionUrlConfig"
               => \E j \in 1..(i - 1) : c[j].call \in {"CreateFunction", "UpdateFunctionCode"}
                                        /\ c[j].res = "ok"
            /\ c[i].call = "AddPermission"
               => i > 1 /\ c[i - 1].call = "CreateFunctionUrlConfig" /\ c[i - 1].res = "ok"
       /\ (proc[p].pc = "lambda_create" /\ ~ZipIsEmpty(proc[p].art))
          => role.exists /\ role.arn = proc[p].roleArn
       /\ proc[p].pc = "url_create" => fn.exists
       /\ proc[p].pc = "url_add_permission" => url.exists /\ url.url = proc[p].createUrl

C14_Witness ==
  \E p \in Procs :
    /\ EndedDeploy(proc[p]) /\ proc[p].pc = "returned"
    /\ Issued(proc[p], "CreateRole") /\ Issued(proc[p], "CreateFunction")
    /\ Issued(proc[p], "CreateFunctionUrlConfig") /\ Issued(proc[p], "AddPermission")
    /\ First(proc[p].calls, "CreateRole") < First(proc[p].calls, "CreateFunction")
    /\ First(proc[p].calls, "CreateFunction") < First(proc[p].calls, "CreateFunctionUrlConfig")

AlreadyExistsErrors == {"EntityAlreadyExistsException", "ResourceConflictException"}

\* the two runs are under way at the same time, nothing failing from outside
Interleaved ==
  \A p \in Deployers :
    /\ proc[p].op = "deploy" /\ prev[p].op = "none"
    /\ NoOutsideFailure(proc[p])

\* successful calls c of both runs together
Created(c) ==
  Cardinality({<<p, i>> \in Deployers \X (1..20) :
                 /\ i \in DOMAIN proc[p].calls
                 /\ proc[p].calls[i].call = c /\ proc[p].calls[i].res = "ok"})

\* C15: two deploy runs for the same names, interleaved call by call: no
\* resource is created twice, and neither run gets an already-exists or
\* conflict error from CreateRole, CreateFunction or CreateFunctionUrlConfig.
C15_ConcurrentDeploys ==
  Interleaved
  => /\ Created("CreateRole") <= 1 /\ Created("CreateFunction") <= 1
     /\ Created("CreateFunctionUrlConfig") <= 1 /\ Created("AddPermission") <= 1
     /\ \A p \in Deployers : \A i \in DOMAIN proc[p].calls :
          proc[p].calls[i].call \in {"CreateRole", "CreateFunction", "CreateFunctionUrlConfig"}
          => proc[p].calls[i].res \notin AlreadyExistsErrors

\* a deploy run that was cancelled between two remote calls
AbortedDeploy(l) == l.op = "deploy" /\ l.pc = "aborted"

\* C16: after a deploy run aborted between two remote calls, a later deploy run
\* in which no call fails (and a non-empty artifact) returns its message and leaves the
\* role, with the basic-execution policy attached, the function and the URL
\* configuration all existing.
C16_AbortedRunReconciled ==
  \A p \in Procs :
    (/\ AbortedDeploy(prev[p])
     /\ EndedDeploy(proc[p]) /\ proc[p].art > 0
     /\ NoOutsideFailure(proc[p]) /\ ~proc[p].failed)
    => /\ proc[p].pc = "returned"
       /\ FullyProvisioned
       /\ role.attached

NotFoundErrors == {"NoSuchEntityException", "ResourceNotFoundException"}

\* the outcome of an existence check called directly, for the answer the
\* service gave: absent for "not found", present for a hit, the error otherwise
ChecksAs(l, absent, present) ==
  LET r == l.calls[1].res IN
  /\ Len(l.calls) = 1
  /\ r \in NotFoundErrors => l.pc = "returned" /\ l.ret.value = absent /\ l.error = ""
  /\ r = "ok" => l.pc = "returned" /\ l.ret.value = present /\ l.error = ""
  /\ r \notin NotFoundErrors \cup {"ok"} => l.pc = "raised" /\ l.error = r /\ l.ret = NoRet

\* C17: AwsIam.exists, AwsLambda.exists and AwsLambda.functionUrlExists map the
\* service's not-found error to undefined / false / undefined without raising,
\* return the ARN / true / the URL when the resource is present, and raise every
\* other service error as it came.
C17_ExistenceChecks ==
  \A l \in Runs :
    /\ l.op = "iam.exists"
       => ChecksAs(l, Undefined, l.pre.role.arn)
    /\ l.op = "lambda.exists"
       => ChecksAs(l, BoolValue(FALSE), BoolValue(TRUE))
    /\ l.op = "lambda.functionUrlExists"
       => ChecksAs(l, Undefined, l.pre.url.url)

C17_Witness ==
  \E p \in Procs :
    /\ prev[p].op = "lambda.exists" /\ prev[p].pc = "raised"
    /\ prev[p].error = "ServiceError"
    /\ proc[p].op = "iam.exists" /\ proc[p].pc = "returned"
    /\ Truthy(proc[p].ret.value) /\ proc[p].ret.value = role.arn

\* C18: in createFunctionUrl a conflict (already exists) answer of AddPermission
\* is swallowed and the call returns the URL it has just created; any other
\* error of AddPermission is raised to the caller (deploy, when it is the
\* caller, receives it in its catch block).
C18_AddPermissionConflict ==
  \A l \in Runs :
    \A i \in DOMAIN l.calls :
      l.calls[i].call = "AddPermission"
      => /\ i = Len(l.calls)
         /\ l.calls[i - 1].call = "CreateFunctionUrlConfig"
         /\ IF l.calls[i].res \in {"ok", "ResourceConflictException"}
            THEN /\ l.pc = "returned" /\ l.error = "" /\ l.caught = ""
                 /\ Truthy(l.createUrl) /\ l.ret.value = l.createUrl
            ELSE /\ l.ret.value /= l.createUrl
                 /\ IF l.op = "deploy"
                    THEN l.caught = l.calls[i].res
                    ELSE l.pc = "raised" /\ l.error = l.calls[i].res

C18_Witness ==
  \E p \in Procs :
    /\ EndedUrlCall(proc[p]) /\ proc[p].pc = "returned"
    /\ Len(proc[p].calls) = 3
    /\ proc[p].calls[3].call = "AddPermission"
    /\ proc[p].calls[3].res = "ResourceConflictException"
    /\ proc[p].ret.value = url.url /\ ~proc[p].pre.url.exists

MissingIdentifierMessage(c) ==
  CASE c = "CreateRole" -> "Failed to create role"
    [] c = "CreateFunction" -> "Failed to create Lambda function"
    [] c = "CreateFunctionUrlConfig" -> "Failed to create function URL - no URL returned"
    [] OTHER -> ""

\* C19: a creation call that the service carried out but whose response lacks
\* the identifier is fatal and not retried: it is the last remote call of the
\* run (so no AttachRolePolicy follows a CreateRole without ARN and no
\* AddPermission a CreateFunctionUrlConfig without URL), and the function that
\* made it throws its "Failed to create ..." error.
C19_MissingIdentifierFatal ==
  \A l \in Runs :
    \A i \in DOMAIN l.calls :
      l.calls[i].res = "incomplete"
      => /\ i = Len(l.calls)
         /\ l.calls[i].call \in {"CreateRole", "CreateFunction", "CreateFunctionUrlConfig"}
         /\ l.failed
         /\ l.createdArn = Undefined \/ l.calls[i].call /= "CreateRole"
         /\ l.createUrl = Undefined
         /\ IF l.op = "deploy" /\ l.calls[i].call = "CreateFunctionUrlConfig"
            THEN l.caught = MissingIdentifierMessage(l.calls[i].call)
            ELSE l.pc = "raised" /\ l.error = MissingIdentifierMessage(l.calls[i].call)

C19_Witness ==
  \E p \in Procs :
    /\ proc[p].op = "deploy" /\ proc[p].pc = "raised"
    /\ Len(proc[p].calls) = 2
    /\ proc[p].calls[2] = Call("CreateRole", RoleNameValue, "incomplete")
    /\ proc[p].error = "Failed to create role"
    /\ ~Issued(proc[p], "AttachRolePolicy")
    /\ role.exists /\ ~role.attached

\* AwsIam.create has returned to the deploy run that called it
RoleCreationReturned(l) ==
  /\ l.op = "deploy" /\ Invoked(l, "iam.create") = 1
  /\ l.pc = "deploy_lambda_exists" \/ Issued(l, "GetFunction")

\* C20: when role creation returns, what it returns is the ARN of the
\* CreateRole response (the ARN the service gave the role), however many polls
\* reported the role absent before.
C20_CreateReturnsCreatedArn ==
  \A p \in Procs :
    RoleCreationReturned(proc[p])
    => LET c == proc[p].calls IN
       /\ Count(c, "CreateRole") = 1 /\ c[First(c, "CreateRole")].res = "ok"
       /\ Truthy(proc[p].createdArn)
       /\ proc[p].roleArn = proc[p].createdArn
       /\ role.exists /\ role.arn = proc[p].createdArn

C20_Witness ==
  \E p \in Procs :
    /\ RoleCreationReturned(proc[p])
    /\ proc[p].polls = 3
    /\ proc[p].calls[5].res = "NoSuchEntityException"
    /\ proc[p].roleArn = role.arn /\ Truthy(role.arn)

\* process p makes its UpdateFunctionCode call in this step
UpdatesCode(p) ==
  /\ proc[p].pc = "lambda_update_code"
  /\ Count(proc'[p].calls, "UpdateFunctionCode") = Count(proc[p].calls, "UpdateFunctionCode") + 1

\* C21: updateCode on an existing function replaces only the code package: the
\* function's ARN, role, handler, runtime, architecture, memory size and timeout
\* are after the call what they were before it, and the role, the URL
\* configuration and the permissions are not changed.
C21_UpdateCodeFrame ==
  [][\A p \in Procs :
       UpdatesCode(p)
       => /\ fn' = [fn EXCEPT !.code = fn'.code]
          /\ fn.exists => (fn'.code = proc[p].art
                           \/ (fn'.code = fn.code /\ proc'[p].failed))
          /\ role' = role /\ url' = url /\ perms' = perms]_vars

C21_Witness ==
  \E p \in Procs :
    /\ proc[p].op = "deploy" /\ proc[p].pc = "url_exists"
    /\ proc[p].calls[Len(proc[p].calls)] = Call("UpdateFunctionCode", FunctionNameValue, "ok")
    /\ fn = [proc[p].pre.fn EXCEPT !.code = proc[p].art]
    /\ fn.code /= proc[p].pre.fn.code


\* ------------------------------------------------------- the HTTP handler
Answered(i) == inv[i].pc = "returned"

Lacks(v) == v \in {Undefined, EmptyString}

\* what the request asks for, read from the event as it came
AsksGet(e)  == Lacks(e.method) \/ e.method = Str("GET")
AsksRoot(e) == Lacks(e.rawPath) \/ e.rawPath = Str("/")
AsksInfo(e) == e.rawPath = Str("/api/info")
AsksElse(e) == ~AsksGet(e) \/ (~AsksRoot(e) /\ ~AsksInfo(e))

ContentType(r) ==
  IF "content-type" \in DOMAIN r.headers THEN r.headers["content-type"] ELSE "none"

IsNotFound(r) ==
  /\ r.statusCode = 404
  /\ ContentType(r) = "application/json; charset=utf-8"
  /\ Len(r.body) = 2
  /\ Member(r.body, "error") = Str("Not Found")

\* C22 as stated: every request that is not a GET, or whose path is neither
\* "/" (or empty) nor "/api/info", is answered 404 with a JSON content type and
\* the body {error: "Not Found", path: the rawPath of the request}.
C22_AsStated ==
  \A i \in Invocations :
    Answered(i) /\ AsksElse(inv[i].event)
    => /\ IsNotFound(inv[i].response)
       /\ Member(inv[i].response.body, "path") = inv[i].event.rawPath

\* C22: every request that is not a GET, or whose path is neither "/" (or
\* empty) nor "/api/info", is answered 404 with a JSON content type and the
\* body {error: "Not Found", path}, where path is the rawPath of the request,
\* or "/" when the request has no rawPath or an empty one.
C22_NotFound ==
  \A i \in Invocations :
    Answered(i) /\ AsksElse(inv[i].event)
    => /\ IsNotFound(inv[i].response)
       /\ Member(inv[i].response.body, "path") =
            (IF Lacks(inv[i].event.rawPath) THEN Str("/") ELSE inv[i].event.rawPath)

C22_Witness ==
  \E i \in Invocations :
    /\ Answered(i)
    /\ inv[i].event.method = Str("POST")
    /\ inv[i].event.rawPath = EmptyString
    /\ inv[i].response.statusCode = 404
    /\ Member(inv[i].response.body, "path") = Str("/")

\* C23: GET /api/info is answered 200 with a JSON body whose message is
\* "Hello from /api/info" and whose requestId, ip and userAgent are those of
\* the request context of the same event, undefined where the event has none.
C23_InfoEchoesContext ==
  \A i \in Invocations :
    Answered(i) /\ AsksGet(inv[i].event) /\ AsksInfo(inv[i].event)
    => /\ inv[i].response.statusCode = 200
       /\ ContentType(inv[i].response) = "application/json; charset=utf-8"
       /\ Member(inv[i].response.body, "message") = Str("Hello from /api/info")
       /\ Member(inv[i].response.body, "requestId") = inv[i].event.requestId
       /\ Member(inv[i].response.body, "ip") = inv[i].event.sourceIp
       /\ Member(inv[i].response.body, "userAgent") = inv[i].event.userAgent

C23_Witness ==
  \E i \in Invocations :
    /\ Answered(i)
    /\ AsksGet(inv[i].event) /\ AsksInfo(inv[i].event)
    /\ inv[i].event.requestId = Str("request-1")
    /\ Member(inv[i].response.body, "requestId") = Str("request-1")
    /\ inv[i].event.sourceIp = Str("192.168.1.1")
    /\ inv[i].event.userAgent = Undefined
    /\ Member(inv[i].response.body, "userAgent") = Undefined

IsText(body) == DOMAIN body = 1..Len(body)

Carries(r, name, value) == name \in DOMAIN r.headers /\ r.headers[name] = value

\* C24: every response, whatever the method and the path, has a content-type
\* header, cache-control "no-store" and access-control-allow-origin "*", a
\* numeric statusCode and a body of text.
C24_ResponseShape ==
  \A i \in Invocations :
    Answered(i)
    => /\ "content-type" \in DOMAIN inv[i].response.headers
       /\ Carries(inv[i].response, "cache-control", "no-store")
       /\ Carries(inv[i].response, "access-control-allow-origin", "*")
       /\ inv[i].response.statusCode \in Nat
       /\ IsText(inv[i].response.body)

C24_Witness ==
  \E i, j \in Invocations :
    /\ Answered(i) /\ Answered(j)
    /\ inv[i].response.statusCode = 200
    /\ inv[j].response.statusCode = 404
    /\ Carries(inv[i].response, "cache-control", "no-store")
    /\ Carries(inv[j].response, "cache-control", "no-store")

\* C25: a request for "/" (rawPath "/", empty or missing) that names no
\* method, for want of requestContext, of http or of method, is taken as
\* GET / and answered 200 with content type text/html.
C25_Defaults ==
  \A i \in Invocations :
    Answered(i) /\ AsksRoot(inv[i].event) /\ Lacks(inv[i].event.method)
    => /\ inv[i].response.statusCode = 200
       /\ ContentType(inv[i].response) = "text/html; charset=utf-8"

C25_Witness ==
  \E i \in Invocations :
    /\ Answered(i)
    /\ inv[i].event = NoEvent
    /\ inv[i].response.statusCode = 200
    /\ ContentType(inv[i].response) = "text/html; charset=utf-8"

\* the response but for the time it was made at
Timeless(r) ==
  [statusCode |-> r.statusCode, headers |-> r.headers,
   body |-> IF ContentType(r) = "application/json; charset=utf-8"
              THEN SelectSeq(r.body, LAMBDA m : m[1] /= "now")
              ELSE r.body]

InfoAnswered(i) ==
  Answered(i) /\ AsksGet(inv[i].event) /\ AsksInfo(inv[i].event)

\* the requestId a response names, none if it is not an /api/info response
EchoedRequestId(r) ==
  IF r.statusCode = 200 /\ ContentType(r) = "application/json; charset=utf-8"
    THEN Member(r.body, "requestId")
    ELSE <<"none", 0>>

\* C26: with invocations in flight together each response depends on its own
\* event only: invocations with the same event get the same response (the
\* time apart), every /api/info response is a 200 with the requestId of its
\* own event, and distinct requestIds come back distinct.
C26_OwnEventOnly ==
  \A i, j \in Invocations :
    /\ Answered(i) /\ Answered(j) /\ inv[i].event = inv[j].event
       => Timeless(inv[i].response) = Timeless(inv[j].response)
    /\ InfoAnswered(i)
       => /\ inv[i].response.statusCode = 200
          /\ EchoedRequestId(inv[i].response) = inv[i].event.requestId
    /\ InfoAnswered(i) /\ InfoAnswered(j)
         /\ inv[i].event.requestId /= inv[j].event.requestId
       => EchoedRequestId(inv[i].response) /= EchoedRequestId(inv[j].response)

\* both invocations were called before either returned
C26_Witness ==
  /\ \A i \in Invocations : InfoAnswered(i) /\ inv[i].started = 0
  /\ \A i, j \in Invocations :
       i /= j => /\ inv[i].event.requestId /= inv[j].event.requestId
                 /\ Truthy(inv[i].event.requestId)
                 /\ EchoedRequestId(inv[i].response)
                      /= EchoedRequestId(inv[j].response)

Contains(text, part) ==
  \E k \in 0..(Len(text) - Len(part)) : SubSeq(text, k + 1, k + Len(part)) = part

\* C27: the page answered to GET / contains "<!doctype html>", "This page is
\* served by a Lambda Function URL" and the heading "Hello from AWS Lambda
\* deployed by Dagger!".
C27_PageText ==
  \A i \in Invocations :
    Answered(i) /\ AsksGet(inv[i].event) /\ AsksRoot(inv[i].event)
    => /\ Contains(inv[i].response.body, <<"<!doctype", "html>">>)
       /\ Contains(inv[i].response.body,
                   <<"This", "page", "is", "served", "by", "a", "Lambda", "Function", "URL">>)
       /\ Contains(inv[i].response.body,
                   <<"Hello", "from", "AWS", "Lambda", "deployed", "by", "Dagger", "!">>)


\* ------------------------------------------------- the permission statement
\* the run made the URL configuration while the statement was already there
RecreatedUrl(l) ==
  /\ Ended(l)
  /\ l.op \in {"deploy", "createFunctionUrl"}
  /\ l.pre.perms /= {}
  /\ \E i \in DOMAIN l.calls :
       l.calls[i].call = "CreateFunctionUrlConfig" /\ l.calls[i].res = "ok"

\* C28: whatever deploy runs, createFunctionUrl calls and deletions of the
\* URL configuration went before, the function has at most one statement, of
\* id "public-url" and for everyone; a run that makes the URL configuration
\* anew while the statement is there adds no statement and does not fail.
C28_OneStatement ==
  /\ Cardinality(perms) <= 1
  /\ \A s \in perms : s.sid = "public-url" /\ s.principal = "*"
  /\ \A l \in Runs :
       RecreatedUrl(l) /\ NoOutsideFailure(l)
       => /\ l.pc = "returned" /\ l.error = "" /\ l.caught = ""
          /\ Truthy(l.ret.value)
  /\ \A p \in Procs :
       RecreatedUrl(proc[p]) => perms = proc[p].pre.perms

\* the URL configuration deleted, then made again
C28_Witness ==
  \E p \in Procs :
    /\ prev[p].op = "lambda.deleteFunctionUrl" /\ prev[p].pc = "returned"
    /\ prev[p].pre.url.exists
    /\ RecreatedUrl(proc[p]) /\ proc[p].pc = "returned"
    /\ Len(proc[p].calls) > 0
    /\ proc[p].calls[Len(proc[p].calls)] =
         Call("AddPermission", <<proc[p].authType, 0>>, "ResourceConflictException")
    /\ url.exists /\ proc[p].ret.value = url.url
    /\ Cardinality(perms) = 1


\* ------------------------------------------- two deploys, once both ended
\* both deploys had an archive to upload and met no failure but the answers
\* the other run caused
BothDeployed ==
  \A p \in Deployers :
    /\ proc[p].op = "deploy" /\ Ended(proc[p])
    /\ proc[p].art > 0
    /\ NoOutsideFailure(proc[p])

\* C29: once two interleaved deploy runs for the same names have both ended,
\* having met no remote failure but already-exists and conflict answers, the
\* role with its policy attached, the function, the URL configuration and the
\* "public-url" statement all exist.
C29_BothDeploysConverge ==
  BothDeployed
  => /\ role.exists /\ role.attached
     /\ fn.exists
     /\ url.exists
     /\ HasStatement("public-url")


\* ------------------------------------------------------- destroy's deletions
\* the existence check destroy makes before a delete call
CheckBefore(c) ==
  CASE c = "DeleteFunction" -> Call("GetFunction", FunctionNameValue, "ok")
    [] c = "DeleteRole" -> Call("GetRole", RoleNameValue, "ok")
    [] c = "DeleteFunctionUrlConfig" -> Call("GetFunctionUrlConfig", FunctionNameValue, "ok")

DeleteCalls == {"DeleteFunction", "DeleteRole", "DeleteFunctionUrlConfig"}

Deletes(l) == {i \in DOMAIN l.calls : l.calls[i].call \in DeleteCalls}

NothingThere(s) == ~s.role.exists /\ ~s.fn.exists /\ ~s.url.exists

EndedDestroy(l) == l.op = "destroy" /\ Ended(l)

Failures(l, cs) ==
  {i \in DOMAIN l.calls :
     /\ l.calls[i].call \in cs
     /\ l.calls[i].res /= "ok"
     /\ ~(l.calls[i].call \in {"GetFunction", "GetRole", "GetFunctionUrlConfig"}
          /\ l.calls[i].res \in {"ResourceNotFoundException", "NoSuchEntityException"})}

\* C31: in destroy a failure of the function's existence check or of its
\* deletion ends the run with that error: no call on the role or on the URL
\* configuration follows and no confirmation message is returned; a failure
\* of the role's deletion likewise ends the run before the URL configuration
\* is looked at.
C31_DestroyFailureAborts ==
  \A l \in Runs :
    l.op = "destroy"
    => /\ \A i \in Failures(l, {"GetFunction", "DeleteFunction"}) :
            /\ i = Len(l.calls)
            /\ l.pc = "raised" /\ l.error = l.calls[i].res
            /\ l.ret /= DestroyMessage
            /\ ~Issued(l, "GetRole") /\ ~Issued(l, "DeleteRole")
            /\ ~Issued(l, "GetFunctionUrlConfig")
            /\ ~Issued(l, "DeleteFunctionUrlConfig")
       /\ \A i \in Failures(l, {"DeleteRole"}) :
            /\ i = Len(l.calls)
            /\ l.pc = "raised" /\ l.error = l.calls[i].res
            /\ l.ret /= DestroyMessage
            /\ ~Issued(l, "GetFunctionUrlConfig")
            /\ ~Issued(l, "DeleteFunctionUrlConfig")

\* the function's deletion failed while role and URL configuration were there
C31_Witness ==
  \E p \in Procs :
    /\ proc[p].op = "destroy" /\ proc[p].pc = "raised"
    /\ Len(proc[p].calls) = 2
    /\ proc[p].calls[2] = Call("DeleteFunction", FunctionNameValue, "ServiceError")
    /\ proc[p].pre.role.exists /\ proc[p].pre.url.exists
    /\ role.exists /\ url.exists /\ fn.exists


\* ------------------------------------------------------- deploy's test step
\* the test step of the run is still going, or has failed
NotTested(l) == l.pc = "deploy_test" \/ l.error = "TestsFailed"

\* C32: deploy runs the test step first: a run whose test step has not
\* completed, or has failed, has sent no call to the identity service or the
\* function service, read or write, and has called none of their functions;
\* when the test step fails deploy raises the failure, returns no message and
\* leaves the account as it found it.
C32_TestsFirst ==
  /\ \A l \in Runs :
       l.op = "deploy" /\ NotTested(l)
       => /\ l.calls = <<>> /\ l.invoked = <<>>
          /\ l.error = "TestsFailed" => l.pc = "raised" /\ l.ret = NoRet
  /\ \A p \in Procs :
       proc[p].op = "deploy" /\ NotTested(proc[p]) => Snapshot = proc[p].pre

\* the test step failed on an account with nothing deployed
C32_Witness ==
  \E p \in Procs :
    /\ proc[p].op = "deploy" /\ proc[p].pc = "raised"
    /\ proc[p].error = "TestsFailed"
    /\ proc[p].calls = <<>>
    /\ ~role.exists /\ ~fn.exists /\ ~url.exists


\* ------------------------------------- createFunctionUrl on an existing URL
\* createFunctionUrl, called by deploy or directly, was shown the URL
\* configuration by its functionUrlExists
FoundUrl(l) ==
  /\ l.op \in {"deploy", "createFunctionUrl"}
  /\ \E k \in DOMAIN l.calls :
       l.calls[k] = Call("GetFunctionUrlConfig", FunctionNameValue, "ok")

\* C33: when the URL configuration exists createFunctionUrl changes nothing
\* remotely: the GetFunctionUrlConfig is its last call, it sends neither
\* CreateFunctionUrlConfig nor AddPermission, returns the URL that exists,
\* and the configuration keeps its auth type and Cors (and the function its
\* permissions) whatever authType and Cors arguments the call was given.
C33_ExistingUrlUntouched ==
  /\ \A l \in Runs :
       FoundUrl(l)
       => /\ l.calls[Len(l.calls)].call = "GetFunctionUrlConfig"
          /\ ~Issued(l, "CreateFunctionUrlConfig") /\ ~Issued(l, "AddPermission")
          /\ l.pc = "returned"
          /\ l.pre.url.exists /\ l.ret.value = l.pre.url.url
  /\ \A p \in Procs :
       FoundUrl(proc[p]) => url = proc[p].pre.url /\ perms = proc[p].pre.perms

\* called for AWS_IAM and another Cors on a configuration made with NONE
C33_Witness ==
  \E p \in Procs :
    /\ proc[p].op = "createFunctionUrl" /\ FoundUrl(proc[p])
    /\ proc[p].authType = "AWS_IAM" /\ proc[p].cors /= DefaultCors
    /\ proc[p].pc = "returned" /\ proc[p].ret.value = url.url
    /\ url.authType = "NONE" /\ url.cors = DefaultCors


\* ------------------------------------------------ the grant under AWS_IAM
\* createFunctionUrl called for AWS_IAM made the URL configuration at call k
CreatedIamUrl(l, k) ==
  /\ l.op = "createFunctionUrl" /\ l.authType = "AWS_IAM"
  /\ k \in DOMAIN l.calls
  /\ l.calls[k] = Call("CreateFunctionUrlConfig", <<"AWS_IAM", 0>>, "ok")

PublicGrant(authType) ==
  [sid |-> "public-url", action |-> "lambda:InvokeFunctionUrl", principal |-> "*",
   authType |-> authType]

\* C34: the grant to everyone does not depend on the auth type: a
\* createFunctionUrl call with authType AWS_IAM that has made the URL
\* configuration goes on to AddPermission, and when that call is accepted the
\* function has the statement "public-url" for principal "*".
C34_GrantWhateverAuthType ==
  /\ \A l \in Runs : \A k \in DOMAIN l.calls :
       CreatedIamUrl(l, k)
       => /\ l.pc \in {"url_add_permission", "returned", "raised"}
          /\ l.pc = "url_add_permission" <=> Len(l.calls) = k
          /\ Len(l.calls) > k
             => /\ Len(l.calls) = k + 1
                /\ l.calls[k + 1].call = "AddPermission"
                /\ l.calls[k + 1].arg = <<"AWS_IAM", 0>>
  /\ \A p \in Procs : \A k \in DOMAIN proc[p].calls :
       CreatedIamUrl(proc[p], k) /\ Len(proc[p].calls) > k
         /\ proc[p].calls[Len(proc[p].calls)].res = "ok"
       => perms = {PublicGrant("AWS_IAM")}

\* no URL configuration and no statement before; AWS_IAM asked for
C34_Witness ==
  \E p \in Procs :
    /\ proc[p].pc = "returned" /\ Len(proc[p].calls) = 3
    /\ CreatedIamUrl(proc[p], 2)
    /\ proc[p].calls[3] = Call("AddPermission", <<"AWS_IAM", 0>>, "ok")
    /\ ~proc[p].pre.url.exists /\ proc[p].pre.perms = {}
    /\ url.exists /\ url.authType = "AWS_IAM"
    /\ PublicGrant("AWS_IAM") \in perms

\* C35: in a deploy of the .dagger LambdaExample begun on a fresh account, CreateRole is
\* issued at most once and only for the configured role name, and every lookup of the
\* role, the one that createFunction's createRole call makes included, is by that name
FreshAccount(s) == ~s.role.exists /\ ~s.fn.exists /\ ~s.url.exists /\ s.perms = {}

RoleCalls == {"GetRole", "CreateRole", "AttachRolePolicy"}

C35_OneRoleByName ==
  \A l \in Runs :
    l.op = "dagger.deploy" /\ FreshAccount(l.pre)
    => /\ Count(l.calls, "CreateRole") <= 1
       /\ \A i \in DOMAIN l.calls :
            l.calls[i].call \in RoleCalls => l.calls[i].arg = RoleNameValue

\* C36: in the single-class deploy, the Role parameter sent with CreateFunction is the
\* ARN that the identity service gave the role, not the role's name
RoleArns == {RoleArnOf(n) : n \in 0..nextId}

C36_RoleParameterIsArn ==
  \A l \in Runs :
    l.op = "example.deploy"
    => \A i \in DOMAIN l.calls :
         l.calls[i].call = "CreateFunction"
         => l.calls[i].arg \in RoleArns /\ l.calls[i].arg /= RoleNameValue

====
